---- MODULE Spec2Model ----
(***************************************************************************)
(* sawfish-client: the socket transport (blocking Client and AsyncClient), *)
(* the X11 property transport and the Client facade that selects between   *)
(* them.                                                                   *)
(***************************************************************************)
EXTENDS Integers, Sequences, FiniteSets, TLC

\* ------------------------------------------------------------------ bounds
\* longest form a caller passes
MaxForm == 1
\* longest run of bytes the peer sends after a response length header
MaxBody == 3

\* byte values used for forms, status bytes and payloads: 1 is the success
\* status, 0 and 2 stand for every other value
Bytes == {0, 1, 2}

Min(a, b) == IF a < b THEN a ELSE b

SeqsUpTo(S, n) == UNION {[1..k -> S] : k \in 0..n}

Prefixes(s) == {SubSeq(s, 1, k) : k \in 0..Len(s)}

Drop(s, k) == SubSeq(s, k + 1, Len(s))

Forms == SeqsUpTo(Bytes, MaxForm)

\* ------------------------------------------------------------- u64 / usize
\* A u64 is kept as its eight base-256 digits, most significant first.
U64Zero == <<0, 0, 0, 0, 0, 0, 0, 0>>

\* u64::try_from(n: usize) for the lengths that occur (n < 2^24)
u64_from_usize(n) ==
    <<0, 0, 0, 0, 0, (n \div 65536) % 256, (n \div 256) % 256, n % 256>>

\* true when the value is below 2^24, so that u64_small_value is its value
u64_is_small(d) == \A i \in 1..5 : d[i] = 0

u64_small_value(d) == d[6] * 65536 + d[7] * 256 + d[8]

\* d - 1 on u64 (wrapping at zero, which the callers exclude)
u64_sub_one(d) ==
    IF d = U64Zero THEN [i \in 1..8 |-> 255]
    ELSE LET last == CHOOSE i \in 1..8 : d[i] # 0 /\ \A j \in (i+1)..8 : d[j] = 0
         IN  [i \in 1..8 |-> IF i < last THEN d[i]
                             ELSE IF i = last THEN d[i] - 1 ELSE 255]

Reverse(s) == [i \in 1..Len(s) |-> s[Len(s) + 1 - i]]

VARIABLES
    endian,      \* byte order of the platform: "little" or "big"
    usize_bits,  \* width of usize on the platform: 32 or 64
    xcb,         \* whether the experimental-xcb feature is compiled in
    cli,         \* the socket clients: "Client" (blocking), "AsyncClient"
    sock,        \* the socket each client owns, seen from the client
    plan,        \* the environment of the current socket call
    srv,         \* the last request the peer parsed on each socket
    fac,         \* the facade: Client::open in progress, then the Client
    log,         \* the connection attempts made so far, in order
    x11,         \* the X11 property-protocol client
    xs           \* the X server as the X11 client sees it

vars == <<endian, usize_bits, xcb, cli, sock, plan, srv, fac, log, x11, xs>>

BuildVars == <<endian, usize_bits, xcb>>
SocketVars == <<cli, sock, plan, srv>>
FacadeVars == <<fac, log>>
X11Vars == <<x11, xs>>

\* u64::to_ne_bytes
to_ne_bytes(d) == IF endian = "little" THEN Reverse(d) ELSE d

\* u64::from_ne_bytes
from_ne_bytes(b) == IF endian = "little" THEN Reverse(b) ELSE b

\* usize::try_from(d: u64).is_ok()
usize_try_from_ok(d) == usize_bits = 64 \/ \A i \in 1..4 : d[i] = 0

\* std::ffi::c_ulong, the field of EvalError::ResponseTooLarge: unsigned long
\* of the platform's C ABI, as wide as a pointer on the Unix targets
c_ulong_bits == usize_bits

\* the u64 is a value of c_ulong
c_ulong_holds(d) == c_ulong_bits = 64 \/ \A i \in 1..4 : d[i] = 0

\* ----------------------------------------------------------------- results
\* Result<EvalResponse, EvalError>
Ok_Ok(data) == [tag |-> "Success", data |-> data]
Ok_Err(data) == [tag |-> "Failure", data |-> data]
Err_NoResponse == [tag |-> "NoResponse", data |-> <<>>]
Err_ResponseTooLarge(d) == [tag |-> "ResponseTooLarge", data |-> d]
Err_Io == [tag |-> "Io", data |-> <<>>]
NoRet == [tag |-> "none", data |-> <<>>]

Variants == {"Client", "AsyncClient"}

\* a client that is not inside a call
IdleClient ==
    [pc |-> "idle", form |-> <<>>, is_async |-> FALSE, n |-> 0, buf |-> <<>>,
     data_len |-> U64Zero, state |-> 0, ret |-> NoRet,
     sent |-> <<>>, got |-> <<>>]

\* a connected socket: tx holds the bytes written and not yet taken by the
\* peer, rx the bytes the peer sent and the client has not read, eof whether
\* the peer has shut the stream down, wcap how many more bytes the stream
\* takes before writes start to fail (-1: no failure is due), offered every
\* byte the stream has held for the client since the current call began
OpenSocket ==
    [tx |-> <<>>, rx |-> <<>>, eof |-> FALSE, wcap |-> -1, offered |-> <<>>]

\* the call returns r
Return(c, r) ==
    [c EXCEPT !.pc = "idle", !.ret = r, !.n = 0, !.buf = <<>>,
              !.data_len = U64Zero, !.state = 0]

\* One write call on the stream inside write_all / write_all_vectored, as the
\* set of its outcomes: the call fails, or the stream takes k >= 1 of the
\* bytes of data still to be written; done when all of data is written.
write_all(c, s, data) ==
    (IF s.wcap = 0
     THEN {[c |-> c, s |-> s, failed |-> TRUE, done |-> FALSE]} ELSE {})
    \cup
    {LET chunk == SubSeq(data, c.n + 1, c.n + k)
     IN  [c |-> [c EXCEPT !.n = c.n + k, !.sent = @ \o chunk],
          s |-> [s EXCEPT !.tx = @ \o chunk,
                          !.wcap = IF @ < 0 THEN @ ELSE @ - k],
          failed |-> FALSE,
          done |-> c.n + k = Len(data)] :
        k \in 1..(IF s.wcap < 0 THEN Len(data) - c.n
                  ELSE Min(Len(data) - c.n, s.wcap))}

\* number of bytes read_exact still wants: want is the buffer length as a u64
read_exact_missing(want, have, avail) ==
    IF u64_is_small(want) THEN Min(u64_small_value(want) - have, avail)
    ELSE avail

\* the payload is taken from one read call, however short it falls
read_exact_payload_once(c, s, want) ==
    (IF s.rx = <<>> /\ s.eof
     THEN {[c |-> c, s |-> s, failed |-> TRUE, done |-> FALSE]} ELSE {})
    \cup
    {LET chunk == SubSeq(s.rx, 1, k)
     IN  [c |-> [c EXCEPT !.buf = @ \o chunk, !.got = @ \o chunk],
          s |-> [s EXCEPT !.rx = Drop(s.rx, k)],
          failed |-> FALSE,
          done |-> \/ u64_from_usize(Len(c.buf) + k) = want
                   \/ c.pc = "read_data"] :
        k \in 1..read_exact_missing(want, Len(c.buf), Len(s.rx))}

\* One read call on the stream inside read_exact, as the set of its
\* outcomes: end of stream fails the call with UnexpectedEof, otherwise
\* k >= 1 bytes arrive; done when the buffer of `want` bytes is full.
read_exact(c, s, want) ==
    (IF s.rx = <<>> /\ s.eof
     THEN {[c |-> c, s |-> s, failed |-> TRUE, done |-> FALSE]} ELSE {})
    \cup
    {LET chunk == SubSeq(s.rx, 1, k)
     IN  [c |-> [c EXCEPT !.buf = @ \o chunk, !.got = @ \o chunk],
          s |-> [s EXCEPT !.rx = Drop(s.rx, k)],
          failed |-> FALSE,
          done |-> u64_from_usize(Len(c.buf) + k) = want] :
        k \in 1..read_exact_missing(want, Len(c.buf), Len(s.rx))}

\* a failed write is passed over and the call goes on
io_step_write_failure_ignored(v, o, cdone) ==
    /\ cli' = [cli EXCEPT ![v] =
                  IF o.failed /\ o.c.pc \in {"read_len", "read_state", "read_data"}
                  THEN Return(o.c, Err_Io)
                  ELSE IF o.done \/ o.failed THEN cdone ELSE o.c]
    /\ sock' = [sock EXCEPT ![v] = o.s]

\* the end of the stream inside the payload ends the payload
io_step_eof_ends_payload(v, o, cdone) ==
    /\ cli' = [cli EXCEPT ![v] =
                  IF o.failed /\ o.c.pc # "read_data" THEN Return(o.c, Err_Io)
                  ELSE IF o.done \/ o.failed THEN cdone ELSE o.c]
    /\ sock' = [sock EXCEPT ![v] = o.s]

\* client v takes outcome o of a read or write call: the error is returned
\* (the ? operator), or the call goes on, or, the transfer done, the client
\* continues as cdone
io_step(v, o, cdone) ==
    /\ cli' = [cli EXCEPT ![v] = IF o.failed THEN Return(o.c, Err_Io)
                                 ELSE IF o.done THEN cdone ELSE o.c]
    /\ sock' = [sock EXCEPT ![v] = o.s]

\* ------------------------------------------------ unix::Client (blocking)
\* Client::read_response, entered: read_exact(&mut buf) of 8 bytes comes first
Client_read_response(c) == [c EXCEPT !.pc = "read_len", !.n = 0, !.buf = <<>>]

\* the response is read whatever the flag
Client_eval_sent_always_reads(c) == Client_read_response(c)

\* no response is read whatever the flag
Client_eval_sent_never_reads(c) == Return(c, Ok_Ok(<<>>))

\* Client::eval after send_request returned Ok
Client_eval_sent(c) ==
    IF c.is_async THEN Return(c, Ok_Ok(<<>>)) ELSE Client_read_response(c)

\* Client::send_request after write_all(&buf): write_all(form) of an empty
\* form returns without a write call
Client_send_request_form(c) ==
    IF c.form = <<>> THEN Client_eval_sent(c)
    ELSE [c EXCEPT !.pc = "send_form", !.n = 0]

\* the length counts the header's length field as well
Client_send_request_buf_long(form, is_async) ==
    <<IF is_async THEN 1 ELSE 0>> \o to_ne_bytes(u64_from_usize(Len(form) + 8))

\* the length is written most significant byte first on every platform
Client_send_request_buf_be(form, is_async) ==
    <<IF is_async THEN 1 ELSE 0>> \o u64_from_usize(Len(form))

\* Client::send_request: buf, the 9-byte header: req_type, then req_len in
\* native byte order
Client_send_request_buf(form, is_async) ==
    <<IF is_async THEN 1 ELSE 0>> \o to_ne_bytes(u64_from_usize(Len(form)))

\* Client::eval, entered: send_request builds buf and starts write_all(&buf)
Client_eval(c, form, is_async) ==
    [c EXCEPT !.pc = "send_buf", !.form = form, !.is_async = is_async,
              !.n = 0, !.buf = <<>>, !.ret = NoRet, !.sent = <<>>,
              !.got = <<>>]

\* status byte 0 alone taken for failure
Client_response_nonzero(c) ==
    Return(c, IF c.state # 0 THEN Ok_Ok(c.buf) ELSE Ok_Err(c.buf))

\* the response once status byte and payload have been read
Client_response(c) ==
    Return(c, IF c.state = 1 THEN Ok_Ok(c.buf) ELSE Ok_Err(c.buf))

\* after the status byte: read_exact of an empty payload makes no read call
Client_read_state_done(c) ==
    LET c1 == [c EXCEPT !.state = c.buf[1], !.buf = <<>>, !.pc = "read_data"]
    IN  IF c.data_len = U64Zero THEN Client_response(c1) ELSE c1

\* a zero length is not told apart from the others
Client_read_len_done_no_zero_check(c) ==
    LET res_len == from_ne_bytes(c.buf)
    IN  IF ~usize_try_from_ok(u64_sub_one(res_len))
        THEN Return(c, Err_ResponseTooLarge(u64_sub_one(res_len)))
        ELSE [c EXCEPT !.data_len = u64_sub_one(res_len), !.buf = <<>>,
                       !.pc = "read_state"]

\* after the 8-byte header: decode res_len, check it, size the payload
Client_read_len_done(c) ==
    LET res_len == from_ne_bytes(c.buf)
    IN  IF res_len = U64Zero THEN Return(c, Err_NoResponse)
        ELSE IF ~usize_try_from_ok(u64_sub_one(res_len))
        THEN Return(c, Err_ResponseTooLarge(u64_sub_one(res_len)))
        ELSE [c EXCEPT !.data_len = u64_sub_one(res_len), !.buf = <<>>,
                       !.pc = "read_state"]

Client_write_buf ==
    /\ cli["Client"].pc = "send_buf"
    /\ \E o \in write_all(cli["Client"], sock["Client"],
                          Client_send_request_buf(cli["Client"].form,
                                                  cli["Client"].is_async)) :
          io_step("Client", o, Client_send_request_form(o.c))

Client_write_form ==
    /\ cli["Client"].pc = "send_form"
    /\ \E o \in write_all(cli["Client"], sock["Client"], cli["Client"].form) :
          io_step("Client", o, Client_eval_sent(o.c))

Client_read_len ==
    /\ cli["Client"].pc = "read_len"
    /\ \E o \in read_exact(cli["Client"], sock["Client"], u64_from_usize(8)) :
          io_step("Client", o, Client_read_len_done(o.c))

Client_read_state ==
    /\ cli["Client"].pc = "read_state"
    /\ \E o \in read_exact(cli["Client"], sock["Client"], u64_from_usize(1)) :
          io_step("Client", o, Client_read_state_done(o.c))

Client_read_data ==
    /\ cli["Client"].pc = "read_data"
    /\ \E o \in read_exact(cli["Client"], sock["Client"],
                           cli["Client"].data_len) :
          io_step("Client", o, Client_response(o.c))

\* every step of the blocking client
Client_step ==
    \/ Client_write_buf
    \/ Client_write_form
    \/ Client_read_len
    \/ Client_read_state
    \/ Client_read_data

\* --------------------------------------------- unix::AsyncClient (async I/O)
\* AsyncClient::read_response, entered
AsyncClient_read_response(c) ==
    [c EXCEPT !.pc = "read_len", !.n = 0, !.buf = <<>>]

\* AsyncClient::eval after send_request(...).await returned Ok
AsyncClient_eval_sent(c) ==
    IF c.is_async THEN Return(c, Ok_Ok(<<>>)) ELSE AsyncClient_read_response(c)

\* AsyncClient::send_request: bufs, the header slice followed by the form
AsyncClient_send_request_bufs(form, is_async) ==
    (<<IF is_async THEN 1 ELSE 0>> \o to_ne_bytes(u64_from_usize(Len(form))))
        \o form

\* AsyncClient::eval, entered: send_request starts write_all_vectored(bufs)
AsyncClient_eval(c, form, is_async) ==
    [c EXCEPT !.pc = "send_vectored", !.form = form, !.is_async = is_async,
              !.n = 0, !.buf = <<>>, !.ret = NoRet, !.sent = <<>>,
              !.got = <<>>]

\* the payload is dropped from a failure
AsyncClient_response_no_payload(c) ==
    Return(c, IF c.state = 1 THEN Ok_Ok(c.buf) ELSE Ok_Err(<<>>))

AsyncClient_response(c) ==
    Return(c, IF c.state = 1 THEN Ok_Ok(c.buf) ELSE Ok_Err(c.buf))

AsyncClient_read_state_done(c) ==
    LET c1 == [c EXCEPT !.state = c.buf[1], !.buf = <<>>, !.pc = "read_data"]
    IN  IF c.data_len = U64Zero THEN AsyncClient_response(c1) ELSE c1

AsyncClient_read_len_done(c) ==
    LET res_len == from_ne_bytes(c.buf)
    IN  IF res_len = U64Zero THEN Return(c, Err_NoResponse)
        ELSE IF ~usize_try_from_ok(u64_sub_one(res_len))
        THEN Return(c, Err_ResponseTooLarge(u64_sub_one(res_len)))
        ELSE [c EXCEPT !.data_len = u64_sub_one(res_len), !.buf = <<>>,
                       !.pc = "read_state"]

AsyncClient_write_vectored ==
    /\ cli["AsyncClient"].pc = "send_vectored"
    /\ \E o \in write_all(cli["AsyncClient"], sock["AsyncClient"],
                          AsyncClient_send_request_bufs(
                              cli["AsyncClient"].form,
                              cli["AsyncClient"].is_async)) :
          io_step("AsyncClient", o, AsyncClient_eval_sent(o.c))

AsyncClient_read_len ==
    /\ cli["AsyncClient"].pc = "read_len"
    /\ \E o \in read_exact(cli["AsyncClient"], sock["AsyncClient"],
                           u64_from_usize(8)) :
          io_step("AsyncClient", o, AsyncClient_read_len_done(o.c))

AsyncClient_read_state ==
    /\ cli["AsyncClient"].pc = "read_state"
    /\ \E o \in read_exact(cli["AsyncClient"], sock["AsyncClient"],
                           u64_from_usize(1)) :
          io_step("AsyncClient", o, AsyncClient_read_state_done(o.c))

AsyncClient_read_data ==
    /\ cli["AsyncClient"].pc = "read_data"
    /\ \E o \in read_exact(cli["AsyncClient"], sock["AsyncClient"],
                           cli["AsyncClient"].data_len) :
          io_step("AsyncClient", o, AsyncClient_response(o.c))

\* every step of the async client
AsyncClient_step ==
    \/ AsyncClient_write_vectored
    \/ AsyncClient_read_len
    \/ AsyncClient_read_state
    \/ AsyncClient_read_data

\* ------------------------------------------------------------ the peer
\* response lengths whose payload length is 2^32 - 1 and 2^32
BigLens == {<<0, 0, 0, 1, 0, 0, 0, 0>>, <<0, 0, 0, 1, 0, 0, 0, 1>>}

\* the byte strings the peer may send in answer to one request: a length
\* header followed by a body that is short, exact or one byte too long; a
\* header announcing a huge payload; a truncated header
Responses ==
    UNION {{to_ne_bytes(u64_from_usize(L)) \o b :
                b \in SeqsUpTo(Bytes, Min(MaxBody, L + 1))} :
           L \in 0..(MaxBody + 1)}
    \cup {to_ne_bytes(d) \o b : d \in BigLens, b \in {<<>>, <<1>>}}
    \cup Prefixes(to_ne_bytes(u64_from_usize(1)))

\* the peer's answer to one request: silence to a fire-and-forget request
\* (kind 1) and when the call began with bytes of an earlier answer unread
\* (stale), any of Responses to a synchronous request; after it the stream
\* stays open or is shut down
Answers(kind, stale) ==
    {[resp |-> r, close |-> c] :
        r \in (IF kind = 0 /\ stale = <<>> THEN Responses ELSE {<<>>}),
        c \in BOOLEAN}

\* the environment of one call: cap is how many bytes of the request the
\* stream takes before it breaks (-1: all of them); resp and close are the
\* peer's answer, known once it has answered (set)
NoPlan == [resp |-> <<>>, close |-> FALSE, cap |-> -1, set |-> FALSE]

NoRequest == [kind |-> -1, form |-> <<>>]

\* a whole request frame is at the head of the bytes the peer holds
server_has_request(tx) ==
    /\ Len(tx) >= 9
    /\ u64_is_small(from_ne_bytes(SubSeq(tx, 2, 9)))
    /\ Len(tx) >= 9 + u64_small_value(from_ne_bytes(SubSeq(tx, 2, 9)))

\* the request frame at the head of tx as the peer decodes it
server_request(tx) ==
    LET len == u64_small_value(from_ne_bytes(SubSeq(tx, 2, 9)))
    IN  [kind |-> tx[1], form |-> SubSeq(tx, 10, 9 + len), size |-> 9 + len]

\* The peer takes one request frame off the stream and answers it with ans.
server_thread(v, ans) ==
    LET s == sock[v]
        req == server_request(s.tx)
    IN  /\ server_has_request(s.tx)
        /\ srv' = [srv EXCEPT ![v] = [kind |-> req.kind, form |-> req.form]]
        /\ sock' = [sock EXCEPT ![v] =
                       [s EXCEPT !.tx = Drop(s.tx, req.size),
                                 !.rx = @ \o ans.resp,
                                 !.offered = @ \o ans.resp,
                                 !.eof = @ \/ ans.close,
                                 !.wcap = IF ans.close THEN 0 ELSE @]]
        /\ UNCHANGED cli

\* the socket as a call begins: the write budget cap applies unless the
\* stream is already broken
call_socket(s, cap) ==
    [s EXCEPT !.wcap = IF s.wcap < 0 THEN cap ELSE s.wcap,
              !.offered = s.rx]

\* the write budgets of a call with this form: none, or the stream breaks
\* inside the request frame
Caps(form) == {-1} \cup 0..(8 + Len(form))

\* the blocking client or its peer can take a step
ClientBusy ==
    \/ server_has_request(sock["Client"].tx)
    \/ cli["Client"].pc \in {"send_buf", "send_form"}
    \/ /\ cli["Client"].pc \in {"read_len", "read_state", "read_data"}
       /\ (sock["Client"].rx # <<>> \/ sock["Client"].eof)

\* ------------------------------------------- both socket clients, one input
\* A caller gives the same form and flag to a blocking client and to an async
\* client, each on its own socket, whose peers behave alike. The blocking
\* call runs first; the async call runs once the blocking one has returned or
\* can go no further.
SocketCall ==
    /\ \A v \in Variants : cli[v] = IdleClient
    /\ \A v \in Variants : ~server_has_request(sock[v].tx)
    /\ \E f \in Forms, a \in BOOLEAN :
         \E cap \in Caps(f) :
            /\ cli' = [cli EXCEPT
                         !["Client"] = Client_eval(@, f, a),
                         !["AsyncClient"] = AsyncClient_eval(@, f, a)]
            /\ sock' = [v \in Variants |-> call_socket(sock[v], cap)]
            /\ plan' = [NoPlan EXCEPT !.cap = cap]
    /\ UNCHANGED srv
    /\ UNCHANGED <<BuildVars, FacadeVars, X11Vars>>

\* the caller takes the two results
SocketResults ==
    /\ \A v \in Variants : cli[v].pc = "idle" /\ cli[v].ret # NoRet
    /\ \A v \in Variants : ~server_has_request(sock[v].tx)
    /\ cli' = [v \in Variants |-> IdleClient]
    /\ sock' = [v \in Variants |-> [sock[v] EXCEPT !.offered = <<>>]]
    /\ plan' = NoPlan
    /\ srv' = [v \in Variants |-> NoRequest]
    /\ UNCHANGED <<BuildVars, FacadeVars, X11Vars>>

SocketClient ==
    /\ Client_step
    /\ UNCHANGED <<plan, srv>>
    /\ UNCHANGED <<BuildVars, FacadeVars, X11Vars>>

SocketAsyncClient ==
    /\ ~ClientBusy
    /\ AsyncClient_step
    /\ UNCHANGED <<plan, srv>>
    /\ UNCHANGED <<BuildVars, FacadeVars, X11Vars>>

\* the blocking client's peer answers its request
SocketServer ==
    /\ server_has_request(sock["Client"].tx)
    /\ \E ans \in Answers(server_request(sock["Client"].tx).kind,
                          sock["Client"].offered) :
         /\ server_thread("Client", ans)
         /\ plan' = [plan EXCEPT !.resp = ans.resp, !.close = ans.close,
                                 !.set = TRUE]
    /\ UNCHANGED <<BuildVars, FacadeVars, X11Vars>>

\* the async client's peer answers the same request in the same way
SocketAsyncServer ==
    /\ ~ClientBusy
    /\ plan.set
    /\ server_thread("AsyncClient", [resp |-> plan.resp, close |-> plan.close])
    /\ UNCHANGED plan
    /\ UNCHANGED <<BuildVars, FacadeVars, X11Vars>>

\* ---------------------------------------------------- codec on a loopback
\* The blocking client on a stream whose far end hands back what was written:
\* a request is encoded by eval, and the bytes are then decoded, by
\* read_response and by the peer's own request parser.
CodecEncode ==
    /\ cli["Client"] = IdleClient
    /\ sock["Client"] = OpenSocket
    /\ \E f \in Forms, a \in BOOLEAN :
         cli' = [cli EXCEPT !["Client"] = Client_eval(@, f, a)]
    /\ UNCHANGED <<sock, plan, srv>>
    /\ UNCHANGED <<BuildVars, FacadeVars, X11Vars>>

CodecClient ==
    /\ Client_step
    /\ UNCHANGED <<plan, srv>>
    /\ UNCHANGED <<BuildVars, FacadeVars, X11Vars>>

\* the far end returns the request frame it holds, unchanged
CodecLoopback ==
    /\ cli["Client"].sent # <<>>
    /\ sock["Client"].tx = cli["Client"].sent
    /\ server_has_request(sock["Client"].tx)
    /\ sock' = [sock EXCEPT !["Client"] =
                   [@ EXCEPT !.tx = <<>>, !.rx = sock["Client"].tx,
                             !.offered = sock["Client"].tx, !.eof = TRUE]]
    /\ UNCHANGED <<cli, plan, srv>>
    /\ UNCHANGED <<BuildVars, FacadeVars, X11Vars>>

\* read_response is run on the returned bytes (eval does so itself for a
\* synchronous request)
CodecDecode ==
    /\ cli["Client"].pc = "idle"
    /\ cli["Client"].is_async
    /\ cli["Client"].got = <<>>
    /\ sock["Client"].rx # <<>>
    /\ cli' = [cli EXCEPT !["Client"] =
                  Client_read_response([@ EXCEPT !.ret = NoRet])]
    /\ UNCHANGED <<sock, plan, srv>>
    /\ UNCHANGED <<BuildVars, FacadeVars, X11Vars>>

\* the peer's request parser is run on the written bytes
CodecServer ==
    /\ server_thread("Client", [resp |-> <<>>, close |-> TRUE])
    /\ UNCHANGED plan
    /\ UNCHANGED <<BuildVars, FacadeVars, X11Vars>>

\* ----------------------------------------------------- display and path
\* Strings are sequences of one-character strings; Option<T> is <<>> (None)
\* or <<x>> (Some(x)).
None == <<>>
Some(x) == <<x>>

\* str::starts_with
starts_with(s, p) == Len(s) >= Len(p) /\ SubSeq(s, 1, Len(p)) = p

\* str::split_once(ch): None, or the parts before and after the first ch
split_once(s, ch) ==
    IF \E i \in 1..Len(s) : s[i] = ch
    THEN LET i == CHOOSE i \in 1..Len(s) :
                     s[i] = ch /\ \A j \in 1..(i - 1) : s[j] # ch
         IN  Some(<<SubSeq(s, 1, i - 1), Drop(s, i)>>)
    ELSE None

\* Option::unwrap_or
unwrap_or(o, d) == IF o = None THEN d ELSE o[1]

LowerOf ==
    ("H" :> "h") @@ ("O" :> "o") @@ ("S" :> "s") @@ ("T" :> "t")

\* str::to_lowercase
to_lowercase(s) ==
    [i \in 1..Len(s) |-> IF s[i] \in DOMAIN LowerOf THEN LowerOf[s[i]] ELSE s[i]]

contains(s, ch) == \E i \in 1..Len(s) : s[i] = ch

\* canonical_host_impl as built under cfg!(test): the resolver's answers
canonical_host_impl(host) ==
    Some(IF host = <<"n", "o", "f", "q">> THEN host
         ELSE IF contains(host, ".") THEN to_lowercase(host)
         ELSE to_lowercase(host) \o <<".", "l", "o", "c", "a", "l">>)

\* canonical_host
canonical_host(host) == to_lowercase(unwrap_or(canonical_host_impl(host), host))

\* SYSTEM_NAME as built under cfg!(test)
SYSTEM_NAME == Some(<<"h", "o", "s", "t", ".", "l", "o", "c", "a", "l">>)

\* the "unix:" prefix is kept as a host name
canonical_display_keeps_prefix(name0) ==
    LET hr == unwrap_or(split_once(name0, ":"), <<name0, <<"0">>>>)
        host == IF hr[1] = <<>> THEN unwrap_or(SYSTEM_NAME, <<>>)
                ELSE canonical_host(hr[1])
        ds == unwrap_or(split_once(hr[2], "."), <<hr[2], <<"0">>>>)
    IN  host \o <<":">> \o ds[1] \o <<".">> \o ds[2]

\* canonical_display
canonical_display(name0) ==
    LET name == IF starts_with(name0, <<"u", "n", "i", "x", ":">>)
                THEN Drop(name0, 4) ELSE name0
        hr == unwrap_or(split_once(name, ":"), <<name, <<"0">>>>)
        host == IF hr[1] = <<>> THEN unwrap_or(SYSTEM_NAME, <<>>)
                ELSE canonical_host(hr[1])
        ds == unwrap_or(split_once(hr[2], "."), <<hr[2], <<"0">>>>)
    IN  host \o <<":">> \o ds[1] \o <<".">> \o ds[2]

\* ConnError
ConnError(tag) == [tag |-> tag, path |-> <<>>, io |-> "none"]
\* ConnError::Io(path, err)
ConnError_Io(path, err) == [tag |-> "Io", path |-> path, io |-> err]
NoConnError == ConnError("none")

\* Result<T, ConnError>
Conn_Ok(x) == [ok |-> TRUE, val |-> x, err |-> NoConnError]
Conn_Err(e) == [ok |-> FALSE, val |-> <<>>, err |-> e]

\* the display is put into the path as it was given
server_path_raw_display(display, logname) ==
    IF logname = None THEN Conn_Err(ConnError("NoLogname"))
    ELSE Conn_Ok(<<"/tmp/.sawfish-">> \o logname[1] \o <<"/">> \o display)

\* server_path: /tmp/.sawfish-{LOGNAME}/{canonical display}
server_path(display, logname) ==
    IF logname = None THEN Conn_Err(ConnError("NoLogname"))
    ELSE Conn_Ok(<<"/tmp/.sawfish-">> \o logname[1] \o <<"/">>
                 \o canonical_display(display))

\* an empty display string is taken as a display
get_display_accepts_empty(display, env_display) ==
    LET d == IF display # None THEN display ELSE env_display
    IN  IF d # None THEN Conn_Ok(d[1]) ELSE Conn_Err(ConnError("NoDisplay"))

\* an empty argument is replaced by $DISPLAY as a missing one is
get_display_env_for_empty(display, env_display) ==
    LET d == IF display # None /\ display[1] # <<>> THEN display
             ELSE env_display
    IN  IF d # None /\ d[1] # <<>> THEN Conn_Ok(d[1])
        ELSE Conn_Err(ConnError("NoDisplay"))

\* get_display: the argument, else $DISPLAY; an empty string counts as none
get_display(display, env_display) ==
    LET d == IF display # None THEN display ELSE env_display
    IN  IF d # None /\ d[1] # <<>> THEN Conn_Ok(d[1])
        ELSE Conn_Err(ConnError("NoDisplay"))

\* the display arguments a caller passes and the values $DISPLAY and $LOGNAME
\* may have
DisplayArgs == {None, Some(<<>>), Some(<<":", "0">>)}
DisplayEnvs == {None, Some(<<>>), Some(<<":", "1">>)}
LognameEnvs == {None, Some(<<"u">>)}

\* the std::io::Error kinds UnixStream::connect fails with
ConnectErrors == {"NotFound", "ConnectionRefused"}

\* UnixStream::connect(&path).map(Self).map_err(|err| ConnError::Io(path, err))
UnixStream_connect(path, connect) ==
    IF connect = "ok" THEN Conn_Ok("Unix")
    ELSE Conn_Err(ConnError_Io(path, connect))

\* ------------------------------------------------------------ the X server
MaxQueue == 2

ATOM_NONE == 0
ATOM_CARDINAL == 6
ATOM_STRING == 31
Window_FORMAT == 32
PROTOCOL_X11_VERSION == 1
InitialLongLength == 16

\* identifiers the X server hands out during open
req_win_id == 5
portal_id == 7
property_id == 9
other_atom_id == 11

\* a window property: its type atom, its format and its bytes
NoProperty == [type |-> ATOM_NONE, format |-> 0, value |-> <<>>]
XProperty(t, f, v) == [type |-> t, format |-> f, value |-> v]

\* the X server's reply to GetProperty{type, long_offset: 0, long_length}
GetProperty(prop, type, long_length) ==
    IF prop.type = ATOM_NONE
    THEN [type |-> ATOM_NONE, format |-> 0, bytes_after |-> 0, value |-> <<>>]
    ELSE IF prop.type # type
    THEN [type |-> prop.type, format |-> prop.format,
          bytes_after |-> Len(prop.value), value |-> <<>>]
    ELSE LET t == Min(Len(prop.value), 4 * long_length)
         IN  [type |-> prop.type, format |-> prop.format,
              bytes_after |-> Len(prop.value) - t,
              value |-> SubSeq(prop.value, 1, t)]

\* the value's length is counted in bytes
reply_length_in_bytes(reply) == Len(reply.value)

\* GetPropertyReply::length: the value's length in format units
reply_length(reply) ==
    IF reply.format = 0 THEN 0 ELSE Len(reply.value) \div (reply.format \div 8)

req_win_bytes == <<req_win_id, 0, 0, 0>>

\* what the root window's _SAWFISH_REQUEST_WIN property may hold
RootProperties ==
    {NoProperty,
     XProperty(ATOM_CARDINAL, Window_FORMAT, req_win_bytes),
     XProperty(ATOM_CARDINAL, Window_FORMAT, req_win_bytes \o req_win_bytes),
     XProperty(ATOM_CARDINAL, Window_FORMAT, <<>>),
     XProperty(ATOM_CARDINAL, 8, <<req_win_id>>),
     XProperty(ATOM_STRING, 8, req_win_bytes)}

\* a reply of n bytes: status 1, then payload bytes that tell their place
LongValue(n) == [i \in 1..n |-> IF i = 1 THEN 1 ELSE i % 256]

\* how far the long replies go past the initial read window, in bytes
LongExtras == {0, 1, 5}

\* what the Sawfish server may leave in the portal's property as its reply
Replies ==
    {XProperty(ATOM_STRING, 8, v) : v \in SeqsUpTo(Bytes, MaxBody)}
    \cup {XProperty(ATOM_STRING, 8, LongValue(4 * InitialLongLength + k)) :
            k \in LongExtras}
    \cup {NoProperty,
          XProperty(ATOM_CARDINAL, Window_FORMAT, <<1, 0, 0, 0>>),
          XProperty(ATOM_STRING, Window_FORMAT, <<1, 0, 0, 0>>)}

PropertyNotify(window, atom, by) ==
    [type |-> "PropertyNotify", window |-> window, atom |-> atom, by |-> by]

\* events that are not the PropertyNotify the client waits for
OtherEvents ==
    {[type |-> "Expose", window |-> portal_id, atom |-> ATOM_NONE, by |-> "x"],
     PropertyNotify(portal_id, other_atom_id, "x")}

XClosed ==
    [up |-> FALSE, portal |-> FALSE, prop |-> NoProperty,
     events |-> <<>>, msgs |-> <<>>, destroy |-> "none"]
XConnected == [XClosed EXCEPT !.up = TRUE]

\* ------------------------------------------------------------- x11::Client
Err_BadResponse(window, atom, typ, format) ==
    [tag |-> "BadResponse", data |-> <<window, atom, typ, format>>]

NoX11Client ==
    [pc |-> "none", form |-> <<>>, is_async |-> FALSE, long_length |-> 0,
     ret |-> NoRet, seen |-> NoProperty, reads |-> 0, sends |-> 0,
     err |-> "none", req_win_atom |-> "unknown", by |-> "none"]

NoFacade ==
    [pc |-> "init", arg |-> None, env |-> None, display |-> <<>>,
     logname |-> None, path |-> None,
     err |-> NoConnError, ret |-> NoConnError, inner |-> "none"]

\* the fallback's failure is reported as the socket transport's error
x11_open_Err_socket_error(c, tag) ==
    /\ fac' = [fac EXCEPT !.pc = "failed", !.ret = fac.err]
    /\ x11' = [c EXCEPT !.pc = "none"]
    /\ xs' = XClosed

\* x11::Client::open returning Err: the connection is dropped with it; c
\* is what open had found out when it returned
x11_open_Err(c, tag) ==
    /\ fac' = [fac EXCEPT !.pc = "failed", !.ret = ConnError(tag)]
    /\ x11' = [c EXCEPT !.pc = "none"]
    /\ xs' = XClosed

\* xcb::Connection::connect and the screen lookup
x11_Client_open_connect ==
    /\ fac.pc = "x11" /\ x11.pc = "connect"
    /\ log' = Append(log, "x11_connect")
    /\ \E r \in {"ok", "error", "bad_screen"} :
          IF r = "error" THEN x11_open_Err(x11, "X11")
          ELSE IF r = "bad_screen" THEN x11_open_Err(x11, "BadScreen")
          ELSE /\ xs' = XConnected
               /\ x11' = [x11 EXCEPT !.pc = "intern_req_win"]
               /\ UNCHANGED fac
    /\ UNCHANGED <<BuildVars, SocketVars>>

\* InternAtom{only_if_exists: true, "_SAWFISH_REQUEST_WIN"}
x11_Client_open_intern_req_win ==
    /\ fac.pc = "x11" /\ x11.pc = "intern_req_win"
    /\ IF ~xs.up THEN x11_open_Err(x11, "X11")
       ELSE \E req_win_atom \in {"error", "none", "atom"} :
               LET c == [x11 EXCEPT !.req_win_atom = req_win_atom]
               IN  IF req_win_atom = "error" THEN x11_open_Err(x11, "X11")
                   ELSE IF req_win_atom = "none"
                   THEN x11_open_Err(c, "ServerNotFound")
                   ELSE /\ x11' = [c EXCEPT !.pc = "intern_property"]
                        /\ UNCHANGED <<fac, xs>>
    /\ UNCHANGED <<BuildVars, SocketVars, log>>

\* InternAtom{only_if_exists: false, "_SAWFISH_REQUEST"}
x11_Client_open_intern_property ==
    /\ fac.pc = "x11" /\ x11.pc = "intern_property"
    /\ IF ~xs.up THEN x11_open_Err(x11, "X11")
       ELSE \E property \in {"error", "atom"} :
               IF property = "error" THEN x11_open_Err(x11, "X11")
               ELSE /\ x11' = [x11 EXCEPT !.pc = "get_req_win"]
                    /\ UNCHANGED <<fac, xs>>
    /\ UNCHANGED <<BuildVars, SocketVars, log>>

\* the validation of the reply to GetProperty on the root window
req_win_reply_ok(reply) ==
    ~ \/ reply.type # ATOM_CARDINAL
      \/ reply.format # Window_FORMAT
      \/ reply_length(reply) # 1

\* GetProperty{long_length: 1} on the root window and the validation of its
\* reply; root is the property the root window holds
x11_Client_open_get_req_win ==
    /\ fac.pc = "x11" /\ x11.pc = "get_req_win"
    /\ IF ~xs.up THEN x11_open_Err(x11, "X11")
       ELSE \E root \in RootProperties, error \in BOOLEAN :
               LET reply == GetProperty(root, ATOM_CARDINAL, 1)
                   c == [x11 EXCEPT !.seen = root, !.reads = 1]
               IN  IF error THEN x11_open_Err(x11, "X11")
                   ELSE IF ~req_win_reply_ok(reply)
                   THEN x11_open_Err(c, "ServerNotFound")
                   ELSE /\ x11' = [c EXCEPT !.pc = "create_window"]
                        /\ UNCHANGED <<fac, xs>>
    /\ UNCHANGED <<BuildVars, SocketVars, log>>

\* the portal is created and stays although open returns the error
x11_Client_open_create_window_leaks ==
    /\ fac.pc = "x11" /\ x11.pc = "create_window"
    /\ xs.up
    /\ \E error \in BOOLEAN :
          /\ xs' = [xs EXCEPT !.portal = TRUE]
          /\ IF error
             THEN /\ fac' = [fac EXCEPT !.pc = "failed", !.ret = ConnError("X11")]
                  /\ x11' = [x11 EXCEPT !.pc = "none"]
             ELSE /\ x11' = [NoX11Client EXCEPT !.pc = "idle"]
                  /\ fac' = [fac EXCEPT !.pc = "opened", !.inner = "X11",
                                        !.arg = None, !.env = None,
                                        !.display = <<>>, !.err = NoConnError]
    /\ UNCHANGED <<BuildVars, SocketVars, log>>

\* CreateWindow for the portal, checked (an X error means no window was
\* made); then Ok(Self)
x11_Client_open_create_window ==
    /\ fac.pc = "x11" /\ x11.pc = "create_window"
    /\ IF ~xs.up THEN x11_open_Err(x11, "X11")
       ELSE \E error \in BOOLEAN :
               IF error THEN x11_open_Err(x11, "X11")
               ELSE /\ xs' = [xs EXCEPT !.portal = TRUE]
                    /\ x11' = [NoX11Client EXCEPT !.pc = "idle"]
                    /\ fac' = [fac EXCEPT !.pc = "opened", !.inner = "X11",
                                          !.arg = None, !.env = None,
                                          !.display = <<>>, !.err = NoConnError]
    /\ UNCHANGED <<BuildVars, SocketVars, log>>

x11_Return(c, r) == [c EXCEPT !.pc = "idle", !.ret = r, !.by = "none"]

\* the X error of a request is dropped and the call reports success
x11_map_err_reports_ok(c, request) ==
    [x11_Return(c, Ok_Ok(<<>>)) EXCEPT !.err = request]

\* the X error is converted by From<xcb::Error> into EvalError::X11
x11_map_err_from_xcb(c, request) ==
    [x11_Return(c, [tag |-> "X11", data |-> <<>>]) EXCEPT !.err = request]

\* .map_err(std::io::Error::other)? in eval and read_response: the X error
\* of the named request leaves the call as EvalError::Io
x11_map_err(c, request) == [x11_Return(c, Err_Io) EXCEPT !.err = request]

\* x11::Client::eval entered: send_request comes first
x11_Client_eval(c, form, is_async) ==
    [c EXCEPT !.pc = "change_property", !.form = form, !.is_async = is_async,
              !.long_length = 0, !.ret = NoRet, !.seen = NoProperty,
              !.reads = 0, !.sends = 0, !.err = "none", !.by = "none"]

\* the client message follows ChangeProperty at once, the PropertyNotify of
\* the change is left in the queue
x11_send_request_change_property_no_swallow ==
    /\ x11.pc = "change_property"
    /\ \E error \in BOOLEAN :
          IF ~xs.up \/ ~xs.portal \/ error
          THEN /\ x11' = [x11_Return(x11, Err_Io) EXCEPT !.err = "ChangeProperty"]
               /\ UNCHANGED xs
          ELSE /\ xs' = [xs EXCEPT
                    !.prop = XProperty(ATOM_STRING, 8, x11.form),
                    !.events = Append(@, PropertyNotify(portal_id, property_id,
                                                        "client"))]
               /\ x11' = [x11 EXCEPT !.pc = "send_event"]
    /\ UNCHANGED <<BuildVars, SocketVars, FacadeVars>>

\* send_request: ChangeProperty on the portal, checked
x11_send_request_change_property ==
    /\ x11.pc = "change_property"
    /\ \E error \in BOOLEAN :
          IF ~xs.up \/ ~xs.portal \/ error
          THEN /\ x11' = x11_map_err(x11, "ChangeProperty")
               /\ UNCHANGED xs
          ELSE /\ xs' = [xs EXCEPT
                    !.prop = XProperty(ATOM_STRING, 8, x11.form),
                    !.events = Append(@, PropertyNotify(portal_id, property_id,
                                                        "client"))]
               /\ x11' = [x11 EXCEPT !.pc = "swallow"]
    /\ UNCHANGED <<BuildVars, SocketVars, FacadeVars>>

\* any PropertyNotify on the portal ends the wait
is_property_notify_any_atom(ev) ==
    ev.type = "PropertyNotify" /\ ev.window = portal_id

\* the event wait_for_property_notify returns on
is_property_notify(ev) ==
    ev.type = "PropertyNotify" /\ ev.window = portal_id /\ ev.atom = property_id

\* the wait goes on to the next event whatever the PropertyNotify it has met
x11_after_notify_keeps_waiting(c, ev) == c

\* wait_for_property_notify returned on ev (by: what caused the event)
x11_after_notify(c, ev) ==
    IF c.pc = "swallow" THEN [c EXCEPT !.pc = "send_event", !.by = ev.by]
    ELSE [c EXCEPT !.pc = "read", !.long_length = InitialLongLength,
                   !.by = ev.by]

\* wait_for_property_notify: one wait_for_event
x11_wait_for_property_notify ==
    /\ x11.pc \in {"swallow", "wait"}
    /\ IF xs.events # <<>>
       THEN /\ xs' = [xs EXCEPT !.events = Tail(@)]
            /\ x11' = IF is_property_notify(Head(xs.events))
                      THEN x11_after_notify(x11, Head(xs.events)) ELSE x11
       ELSE /\ ~xs.up
            /\ x11' = x11_map_err(x11, "wait_for_event")
            /\ UNCHANGED xs
    /\ UNCHANGED <<BuildVars, SocketVars, FacadeVars>>

\* the flag is the socket frame's kind byte
client_message_kind_byte(is_async) ==
    <<PROTOCOL_X11_VERSION, portal_id, property_id,
      IF is_async THEN 1 ELSE 0, 0>>

\* the ClientMessage data send_request builds
client_message(is_async) ==
    <<PROTOCOL_X11_VERSION, portal_id, property_id,
      IF is_async THEN 0 ELSE 1, 0>>

\* send_request: SendEvent to the request window, checked
x11_send_request_send_event ==
    /\ x11.pc = "send_event"
    /\ \E error \in BOOLEAN :
          IF ~xs.up \/ error
          THEN /\ x11' = x11_map_err(x11, "SendEvent")
               /\ UNCHANGED xs
          ELSE /\ xs' = [xs EXCEPT
                    !.msgs = Append(@, client_message(x11.is_async))]
               /\ x11' = [x11 EXCEPT
                    !.pc = IF x11.is_async THEN "flush" ELSE "wait",
                    !.sends = @ + 1]
    /\ UNCHANGED <<BuildVars, SocketVars, FacadeVars>>

\* the fire-and-forget call waits for a reply as a synchronous one does
x11_eval_flush_waits ==
    /\ x11.pc = "flush"
    /\ x11' = [x11 EXCEPT !.pc = "wait"]
    /\ UNCHANGED <<BuildVars, SocketVars, FacadeVars, xs>>

\* eval, is_async: flush and Ok(Ok(Vec::new()))
x11_eval_flush ==
    /\ x11.pc = "flush"
    /\ x11' = IF xs.up THEN x11_Return(x11, Ok_Ok(<<>>))
              ELSE x11_map_err(x11, "flush")
    /\ UNCHANGED <<BuildVars, SocketVars, FacadeVars, xs>>

\* a status byte other than 1 is reported as a bad response
x11_read_reply_failure_is_error(c, reply) ==
    IF reply.bytes_after # 0
    THEN [c EXCEPT !.long_length = @ + (reply.bytes_after \div 4) + 1]
    ELSE IF reply.value # <<>> /\ Head(reply.value) = 1
    THEN x11_Return(c, Ok_Ok(Tail(reply.value)))
    ELSE x11_Return(c, Err_BadResponse(portal_id, property_id,
                                       reply.type, reply.format))

\* the reply's format is not looked at
x11_read_reply_checks_type_only(c, reply) ==
    IF reply.type # ATOM_STRING
    THEN x11_Return(c, Err_BadResponse(portal_id, property_id,
                                       reply.type, reply.format))
    ELSE IF reply.bytes_after = 0
    THEN IF reply.value = <<>> THEN x11_Return(c, Err_NoResponse)
         ELSE x11_Return(c, IF Head(reply.value) = 1
                            THEN Ok_Ok(Tail(reply.value))
                            ELSE Ok_Err(Tail(reply.value)))
    ELSE [c EXCEPT !.long_length = @ + (reply.bytes_after \div 4) + 1]

\* the first reply's bytes are returned whatever is left unread
x11_read_reply_takes_partial(c, reply) ==
    IF reply.type # ATOM_STRING \/ reply.format # 8
    THEN x11_Return(c, Err_BadResponse(portal_id, property_id,
                                       reply.type, reply.format))
    ELSE IF reply.value = <<>> THEN x11_Return(c, Err_NoResponse)
    ELSE x11_Return(c, IF Head(reply.value) = 1
                       THEN Ok_Ok(Tail(reply.value))
                       ELSE Ok_Err(Tail(reply.value)))

\* read_response: what one reply makes of the loop
x11_read_reply(c, reply) ==
    IF reply.type # ATOM_STRING \/ reply.format # 8
    THEN x11_Return(c, Err_BadResponse(portal_id, property_id,
                                       reply.type, reply.format))
    ELSE IF reply.bytes_after = 0
    THEN IF reply.value = <<>> THEN x11_Return(c, Err_NoResponse)
         ELSE x11_Return(c, IF Head(reply.value) = 1
                            THEN Ok_Ok(Tail(reply.value))
                            ELSE Ok_Err(Tail(reply.value)))
    ELSE [c EXCEPT !.long_length = @ + (reply.bytes_after \div 4) + 1]

\* read_response: one GetProperty round trip
x11_read_response ==
    /\ x11.pc = "read"
    /\ \E error \in BOOLEAN :
          IF ~xs.up \/ error
          THEN x11' = x11_map_err(x11, "GetProperty")
          ELSE x11' = x11_read_reply(
                  [x11 EXCEPT !.seen = IF xs.portal THEN xs.prop ELSE NoProperty,
                              !.reads = @ + 1],
                  GetProperty(xs.prop, ATOM_STRING, x11.long_length))
    /\ UNCHANGED <<BuildVars, SocketVars, FacadeVars, xs>>

x11_step ==
    \/ x11_send_request_change_property
    \/ x11_wait_for_property_notify
    \/ x11_send_request_send_event
    \/ x11_eval_flush
    \/ x11_read_response

\* the X connection breaks
XServer_disconnect ==
    /\ xs.up
    /\ xs' = [xs EXCEPT !.up = FALSE, !.portal = FALSE, !.prop = NoProperty,
                        !.msgs = <<>>]
    /\ UNCHANGED <<BuildVars, SocketVars, FacadeVars, x11>>

\* an event the client does not wait for arrives ahead of one it waits for
\* (one queued while the client is idle is met by the next call's first wait)
XServer_other_event ==
    /\ xs.up /\ xs.portal
    /\ x11.pc \in {"change_property", "swallow", "wait"}
    /\ Len(xs.events) + Len(xs.msgs) < MaxQueue
    /\ \E ev \in OtherEvents : xs' = [xs EXCEPT !.events = Append(@, ev)]
    /\ UNCHANGED <<BuildVars, SocketVars, FacadeVars, x11>>

\* the Sawfish server handles one client message: it answers a request that
\* asks for a reply by replacing the property; otherwise it may delete it
Sawfish_handle ==
    /\ xs.up /\ xs.portal /\ xs.msgs # <<>>
    /\ LET m == Head(xs.msgs)
           notify == PropertyNotify(portal_id, property_id, "server")
       IN  IF m[4] = 1
           THEN \E reply \in Replies :
                   xs' = [xs EXCEPT !.msgs = Tail(@), !.prop = reply,
                                    !.events = Append(@, notify)]
           ELSE \E delete \in BOOLEAN :
                   xs' = [xs EXCEPT
                            !.msgs = Tail(@),
                            !.prop = IF delete THEN NoProperty ELSE @,
                            !.events = IF delete THEN Append(@, notify) ELSE @]
    /\ UNCHANGED <<BuildVars, SocketVars, FacadeVars, x11>>

\* the fallback is taken whatever the socket's result
Client_open_match_always_fallback(r) ==
    [fac EXCEPT !.pc = "fallback", !.err = r.err]

\* ------------------------------------------------------------ the facade
\* Client::open, the match on unix::Client::open's result: Inner::Unix on Ok,
\* x11::Client::fallback on Err
Client_open_match(r) ==
    IF r.ok THEN [fac EXCEPT !.pc = "opened", !.inner = "Unix",
                             !.arg = None, !.env = None, !.display = <<>>]
    ELSE [fac EXCEPT !.pc = "fallback", !.err = r.err]

\* the stub reports an error of its own
x11_stub_fallback_own_error(display, err) == Conn_Err(ConnError("NoDisplay"))

\* x11::Client::fallback as built without the experimental-xcb feature
x11_stub_fallback(display, err) == Conn_Err(err)

\* Client::open: get_display on the caller's argument and $DISPLAY (both
\* are kept while open runs)
Client_open_get_display ==
    /\ fac.pc = "init"
    /\ \E display \in DisplayArgs, env \in DisplayEnvs :
          LET r == get_display(display, env)
              f == [fac EXCEPT !.arg = display, !.env = env]
          IN  fac' = IF r.ok THEN [f EXCEPT !.pc = "unix", !.display = r.val]
                     ELSE [f EXCEPT !.pc = "failed", !.ret = r.err]
    /\ UNCHANGED <<BuildVars, SocketVars, X11Vars, log>>

\* unix::Client::open: server_path, then UnixStream::connect
unix_Client_open ==
    /\ fac.pc = "unix"
    /\ \E logname \in LognameEnvs, connect \in {"ok"} \cup ConnectErrors :
          LET path == server_path(fac.display, logname)
          IN  IF ~path.ok
              THEN /\ fac' = Client_open_match(Conn_Err(path.err))
                   /\ log' = Append(log, "unix_path_error")
              ELSE /\ log' = Append(log, IF connect = "ok"
                                          THEN "unix_connect_ok"
                                          ELSE "unix_connect_error")
                   /\ fac' = Client_open_match(
                                 UnixStream_connect(path.val, connect))
    /\ UNCHANGED <<BuildVars, SocketVars, X11Vars>>

\* x11::Client::fallback: x11::Client::open when the feature is built in,
\* the socket's error otherwise
x11_Client_fallback ==
    /\ fac.pc = "fallback"
    /\ IF xcb
       THEN /\ fac' = [fac EXCEPT !.pc = "x11"]
            /\ x11' = [NoX11Client EXCEPT !.pc = "connect"]
       ELSE /\ fac' = [fac EXCEPT
                 !.pc = "failed",
                 !.ret = x11_stub_fallback(fac.display, fac.err).err]
            /\ UNCHANGED x11
    /\ UNCHANGED <<BuildVars, SocketVars, xs, log>>

\* no eval or send is in progress and no result is waiting to be taken
Client_at_rest ==
    /\ fac.pc = "opened"
    /\ fac.inner = "Unix" => cli["Client"] = IdleClient
    /\ fac.inner = "X11" => x11.pc = "idle" /\ x11.ret = NoRet

\* a call goes back to open's fallback instead of the inner client
Client_dispatch_reopens(form, is_async) ==
    /\ Client_at_rest
    /\ fac' = [fac EXCEPT !.pc = "fallback"]
    /\ UNCHANGED <<BuildVars, SocketVars, X11Vars, log>>

\* the match on the inner client in Client::eval and Client::send
Client_dispatch(form, is_async) ==
    /\ Client_at_rest
    /\ IF fac.inner = "Unix"
       THEN /\ ~server_has_request(sock["Client"].tx)
            /\ \E cap \in Caps(form) :
                 sock' = [sock EXCEPT
                            !["Client"] = call_socket(sock["Client"], cap)]
            /\ cli' = [cli EXCEPT
                         !["Client"] = Client_eval(cli["Client"], form, is_async)]
            /\ UNCHANGED <<x11, xs>>
       ELSE /\ Len(xs.events) + Len(xs.msgs) < MaxQueue
            /\ x11' = x11_Client_eval(x11, form, is_async)
            /\ UNCHANGED <<cli, sock, xs>>
    /\ UNCHANGED <<BuildVars, FacadeVars, plan, srv>>

\* Client::eval
Client_eval_call == \E form \in Forms : Client_dispatch(form, FALSE)

\* Client::send (eval_async in the older facade)
Client_send_call == \E form \in Forms : Client_dispatch(form, TRUE)

\* the caller takes the result of the call
Client_result ==
    /\ fac.pc = "opened"
    /\ IF fac.inner = "Unix"
       THEN /\ cli["Client"].pc = "idle" /\ cli["Client"].ret # NoRet
            /\ cli' = [cli EXCEPT !["Client"] = IdleClient]
            /\ srv' = [srv EXCEPT !["Client"] = NoRequest]
            /\ UNCHANGED x11
       ELSE /\ x11.pc = "idle" /\ x11.ret # NoRet
            /\ x11' = [NoX11Client EXCEPT !.pc = "idle"]
            /\ UNCHANGED <<cli, srv>>
    /\ UNCHANGED <<BuildVars, FacadeVars, sock, plan, xs>>

\* the X connection outlives the Client and only DestroyWindow removes the
\* portal
Client_drop_keeps_connection ==
    /\ Client_at_rest
    /\ fac' = [fac EXCEPT !.pc = "dropped"]
    /\ IF fac.inner = "Unix"
       THEN /\ sock' = [sock EXCEPT !["Client"] = OpenSocket]
            /\ srv' = [srv EXCEPT !["Client"] = NoRequest]
            /\ UNCHANGED <<x11, xs>>
       ELSE /\ x11' = NoX11Client
            /\ \E destroy \in {"done", "failed"} :
                  xs' = [xs EXCEPT !.destroy = destroy,
                                   !.portal = @ /\ destroy = "failed"]
            /\ UNCHANGED <<sock, srv>>
    /\ UNCHANGED <<BuildVars, cli, plan, log>>

\* the Client is dropped: the stream is closed, or x11::Client's drop queues
\* DestroyWindow unchecked (whether it took effect at the server is not
\* looked at) and the X connection is closed, upon which the X server frees
\* what the connection still owns
Client_drop ==
    /\ Client_at_rest
    /\ fac' = [fac EXCEPT !.pc = "dropped"]
    /\ IF fac.inner = "Unix"
       THEN /\ sock' = [sock EXCEPT !["Client"] = OpenSocket]
            /\ srv' = [srv EXCEPT !["Client"] = NoRequest]
            /\ UNCHANGED <<x11, xs>>
       ELSE /\ x11' = NoX11Client
            /\ \E destroy \in {"done", "failed"} :
                  xs' = [XClosed EXCEPT !.destroy = destroy]
            /\ UNCHANGED <<sock, srv>>
    /\ UNCHANGED <<BuildVars, cli, plan, log>>

\* one step of the socket client the facade holds
UnixClient ==
    /\ fac.inner = "Unix"
    /\ Client_step
    /\ UNCHANGED <<BuildVars, FacadeVars, X11Vars, plan, srv>>

\* the Sawfish server on the other end of the facade's socket
UnixServer ==
    /\ fac.inner = "Unix"
    /\ server_has_request(sock["Client"].tx)
    /\ \E ans \in Answers(server_request(sock["Client"].tx).kind,
                          sock["Client"].offered) :
          server_thread("Client", ans)
    /\ UNCHANGED <<BuildVars, FacadeVars, X11Vars, plan>>

\* one step of the X11 client the facade holds
X11Client == x11_step

\* -------------------------------------------------------- specifications
InitBuild ==
    /\ endian \in {"little", "big"}
    /\ usize_bits \in {32, 64}

InitSockets ==
    /\ cli = [v \in Variants |-> IdleClient]
    /\ sock = [v \in Variants |-> OpenSocket]
    /\ plan = NoPlan
    /\ srv = [v \in Variants |-> NoRequest]

InitFacade ==
    /\ fac = NoFacade
    /\ log = <<>>
    /\ x11 = NoX11Client
    /\ xs = XClosed

\* the facade with both transports
Init ==
    /\ InitBuild
    /\ xcb \in BOOLEAN
    /\ InitSockets
    /\ InitFacade

Next ==
    \/ Client_open_get_display
    \/ unix_Client_open
    \/ x11_Client_fallback
    \/ x11_Client_open_connect
    \/ x11_Client_open_intern_req_win
    \/ x11_Client_open_intern_property
    \/ x11_Client_open_get_req_win
    \/ x11_Client_open_create_window
    \/ Client_eval_call
    \/ Client_send_call
    \/ Client_result
    \/ Client_drop
    \/ UnixClient
    \/ UnixServer
    \/ X11Client
    \/ XServer_disconnect
    \/ XServer_other_event
    \/ Sawfish_handle

Spec == Init /\ [][Next]_vars

\* the two socket clients side by side against the same peer
InitSocket ==
    /\ InitBuild
    /\ xcb = FALSE
    /\ InitSockets
    /\ InitFacade

NextSocket ==
    \/ SocketCall
    \/ SocketResults
    \/ SocketClient
    \/ SocketAsyncClient
    \/ SocketServer
    \/ SocketAsyncServer

SpecSocket == InitSocket /\ [][NextSocket]_vars

\* the socket codec on a loopback
InitCodec ==
    /\ InitBuild
    /\ xcb = FALSE
    /\ InitSockets
    /\ InitFacade

NextCodec ==
    \/ CodecEncode
    \/ CodecClient
    \/ CodecLoopback
    \/ CodecDecode
    \/ CodecServer

SpecCodec == InitCodec /\ [][NextCodec]_vars

\* ------------------------------------------------ canonical_display
\* display names: every string of up to MaxName characters of NameChars,
\* and the names of test_canonical_dispaly and of the "unix:" prefix
MaxName == 3
NameChars == {"h", "H", ":", ".", "0"}

TestNames ==
    { <<>>,
      <<":", "0">>,
      <<":", "0", ".", "1">>,
      <<"h", "o", "s", "t", ":", "0">>,
      <<"h", "o", "s", "t", ".", "e", "x", "a", "m", "p", "l", "e", ".",
        "c", "o", "m", ":", "0">>,
      <<"n", "o", "f", "q", ":", "0">>,
      <<"b", "o", "g", "u", "s">> }

DisplayNames ==
    UNION {[1..n -> NameChars] : n \in 0..MaxName}
    \cup TestNames
    \cup { <<"u", "n", "i", "x", ":", "0">>,
           <<"u", "n", "i", "x", ":", "0", ".", "1">>,
           <<"u", "n", "i", "x", ":">>,
           <<"u", "n", "i", "x">>,
           <<"H", "O", "S", "T", ":", "1", ".", "2">> }

InitDisplay ==
    /\ endian = "little" /\ usize_bits = 64
    /\ xcb = FALSE
    /\ InitSockets
    /\ \E name \in DisplayNames : fac = [NoFacade EXCEPT !.arg = Some(name)]
    /\ log = <<>>
    /\ x11 = NoX11Client
    /\ xs = XClosed

\* canonical_display(name)
DisplayCanonical ==
    /\ fac.pc = "init"
    /\ fac' = [fac EXCEPT !.pc = "canonical",
                          !.display = canonical_display(fac.arg[1])]
    /\ UNCHANGED <<BuildVars, SocketVars, X11Vars, log>>

\* the values of $LOGNAME
DisplayLognames ==
    {None, Some(<<>>), Some(<<"u">>), Some(<<"r", "o", "o", "t">>)}

\* unix::Client::open(name): server_path, then UnixStream::connect; the
\* value of LOGNAME and the path handed to connect are kept
DisplayOpen ==
    /\ fac.pc = "init"
    /\ \E logname \in DisplayLognames, connect \in {"ok"} \cup ConnectErrors :
          LET path == server_path(fac.arg[1], logname)
          IN  IF ~path.ok
              THEN /\ fac' = [fac EXCEPT !.pc = "failed", !.ret = path.err,
                                         !.logname = logname]
                   /\ log' = Append(log, "unix_path_error")
              ELSE LET r == UnixStream_connect(path.val, connect)
                   IN  /\ log' = Append(log, IF connect = "ok"
                                              THEN "unix_connect_ok"
                                              ELSE "unix_connect_error")
                       /\ fac' = [fac EXCEPT
                                    !.pc = IF r.ok THEN "opened" ELSE "failed",
                                    !.inner = IF r.ok THEN r.val ELSE "none",
                                    !.ret = r.err,
                                    !.logname = logname,
                                    !.path = Some(path.val)]
    /\ UNCHANGED <<BuildVars, SocketVars, X11Vars>>

NextDisplay ==
    \/ DisplayCanonical
    \/ DisplayOpen

SpecDisplay == InitDisplay /\ [][NextDisplay]_vars

\* ------------------------------------ a sequence of calls on one socket
\* One blocking client, its caller and a peer that behaves as the test's
\* server_thread does: it takes the request frames in order, answers every
\* synchronous request with one whole response frame and a fire-and-forget
\* request with nothing. log tells the calls made ("eval", "send") and the
\* answers given ("reply") in the order they happened.
MaxCalls == 3

Count(seq, x) == Cardinality({i \in DOMAIN seq : seq[i] = x})

\* the response frame to the j-th synchronous request: its number and its
\* form are the payload
ReplyFrame(j, status, form) ==
    to_ne_bytes(u64_from_usize(2 + Len(form))) \o <<status, j>> \o form

InitAlign ==
    /\ InitBuild
    /\ xcb = FALSE
    /\ InitSockets
    /\ InitFacade

\* Client::eval or Client::send is called once the call before has returned
AlignCall ==
    /\ cli["Client"] = IdleClient
    /\ Count(log, "eval") + Count(log, "send") < MaxCalls
    /\ \E f \in Forms, a \in BOOLEAN :
          /\ cli' = [cli EXCEPT !["Client"] = Client_eval(@, f, a)]
          /\ log' = Append(log, IF a THEN "send" ELSE "eval")
    /\ sock' = [sock EXCEPT !["Client"] = call_socket(@, -1)]
    /\ UNCHANGED <<plan, srv, fac>>
    /\ UNCHANGED <<BuildVars, X11Vars>>

AlignClient ==
    /\ Client_step
    /\ UNCHANGED <<plan, srv>>
    /\ UNCHANGED <<BuildVars, FacadeVars, X11Vars>>

\* server_thread: one request frame is taken and answered
AlignServer ==
    /\ server_has_request(sock["Client"].tx)
    /\ LET req == server_request(sock["Client"].tx)
       IN  IF req.kind = 0
           THEN /\ \E status \in {0, 1} :
                     server_thread("Client",
                        [resp |-> ReplyFrame(Count(log, "reply") + 1, status,
                                             req.form),
                         close |-> FALSE])
                /\ log' = Append(log, "reply")
           ELSE /\ server_thread("Client", [resp |-> <<>>, close |-> FALSE])
                /\ log' = log
    /\ UNCHANGED <<plan, fac>>
    /\ UNCHANGED <<BuildVars, X11Vars>>

\* the caller takes the result
AlignResult ==
    /\ cli["Client"].pc = "idle" /\ cli["Client"].ret # NoRet
    /\ cli' = [cli EXCEPT !["Client"] = IdleClient]
    /\ UNCHANGED <<sock, plan, srv>>
    /\ UNCHANGED <<BuildVars, FacadeVars, X11Vars>>

NextAlign ==
    \/ AlignCall
    \/ AlignClient
    \/ AlignServer
    \/ AlignResult

SpecAlign == InitAlign /\ [][NextAlign]_vars

\* -------------------------------------- a response that comes in pieces
\* One synchronous eval on either socket client. The peer answers with one
\* whole response frame (plan.resp), of which the stream hands the client
\* one piece after the other; log has one entry for every read call that
\* returned bytes.
MaxPayload == 2

ResponseFrames ==
    {to_ne_bytes(u64_from_usize(1 + Len(payload))) \o <<status>> \o payload :
        status \in Bytes, payload \in SeqsUpTo(Bytes, MaxPayload)}

InitPartial ==
    /\ InitBuild
    /\ xcb = FALSE
    /\ InitSockets
    /\ InitFacade

\* eval(form, false) on the blocking or on the async client
PartialCall ==
    /\ \A v \in Variants : cli[v] = IdleClient
    /\ ~plan.set
    /\ \E f \in Forms :
          \/ cli' = [cli EXCEPT !["Client"] = Client_eval(@, f, FALSE)]
          \/ cli' = [cli EXCEPT !["AsyncClient"] = AsyncClient_eval(@, f, FALSE)]
    /\ UNCHANGED <<sock, plan, srv>>
    /\ UNCHANGED <<BuildVars, FacadeVars, X11Vars>>

\* one write or read call of the client; a read that returned bytes is
\* counted
PartialClient ==
    /\ \/ Client_step
       \/ AsyncClient_step
    /\ log' = IF \E v \in Variants : cli'[v].got # cli[v].got
              THEN Append(log, "read") ELSE log
    /\ UNCHANGED <<plan, srv, fac>>
    /\ UNCHANGED <<BuildVars, X11Vars>>

\* the peer takes the request and has a response frame to send
PartialServer ==
    /\ ~plan.set
    /\ \E v \in Variants :
          /\ server_has_request(sock[v].tx)
          /\ server_thread(v, [resp |-> <<>>, close |-> FALSE])
    /\ \E frame \in ResponseFrames :
          plan' = [plan EXCEPT !.resp = frame, !.set = TRUE]
    /\ UNCHANGED <<BuildVars, FacadeVars, X11Vars>>

\* the next piece of the response reaches the client's end of the stream
PartialArrive ==
    /\ plan.set
    /\ \E v \in Variants :
          /\ cli[v] # IdleClient
          /\ Len(sock[v].offered) < Len(plan.resp)
          /\ \E j \in 1..(Len(plan.resp) - Len(sock[v].offered)) :
               LET piece == SubSeq(plan.resp, Len(sock[v].offered) + 1,
                                   Len(sock[v].offered) + j)
               IN  sock' = [sock EXCEPT ![v].rx = @ \o piece,
                                        ![v].offered = @ \o piece]
    /\ UNCHANGED <<cli, plan, srv>>
    /\ UNCHANGED <<BuildVars, FacadeVars, X11Vars>>

\* the caller takes the result
PartialResult ==
    /\ \E v \in Variants : cli[v].pc = "idle" /\ cli[v].ret # NoRet
    /\ cli' = [v \in Variants |-> IdleClient]
    /\ sock' = [v \in Variants |-> [sock[v] EXCEPT !.offered = <<>>]]
    /\ plan' = NoPlan
    /\ srv' = [v \in Variants |-> NoRequest]
    /\ log' = <<>>
    /\ UNCHANGED fac
    /\ UNCHANGED <<BuildVars, X11Vars>>

NextPartial ==
    \/ PartialCall
    \/ PartialClient
    \/ PartialServer
    \/ PartialArrive
    \/ PartialResult

SpecPartial == InitPartial /\ [][NextPartial]_vars

\* ------------------------------------- the async client and its caller
\* The future of AsyncClient::eval is dropped by its caller while an await
\* inside it is pending: the call goes no further and what it has written
\* and read stays as it is.
AsyncClient_drop_future(c) == [Return(c, NoRet) EXCEPT !.pc = "dropped"]

\* a caller starts eval or send on the async client
CancelCall ==
    /\ cli["AsyncClient"] = IdleClient
    /\ ~server_has_request(sock["AsyncClient"].tx)
    /\ \E f \in Forms, a \in BOOLEAN :
         \E cap \in Caps(f) :
            /\ cli' = [cli EXCEPT !["AsyncClient"] = AsyncClient_eval(@, f, a)]
            /\ sock' = [sock EXCEPT !["AsyncClient"] = call_socket(@, cap)]
    /\ UNCHANGED <<plan, srv>>
    /\ UNCHANGED <<BuildVars, FacadeVars, X11Vars>>

\* the future is polled: one write or read on the stream
CancelClient ==
    /\ AsyncClient_step
    /\ UNCHANGED <<plan, srv>>
    /\ UNCHANGED <<BuildVars, FacadeVars, X11Vars>>

\* the peer answers a whole request
CancelServer ==
    /\ server_has_request(sock["AsyncClient"].tx)
    /\ \E ans \in Answers(server_request(sock["AsyncClient"].tx).kind,
                          sock["AsyncClient"].offered) :
         server_thread("AsyncClient", ans)
    /\ UNCHANGED plan
    /\ UNCHANGED <<BuildVars, FacadeVars, X11Vars>>

\* the caller drops the future at a pending await: write_all_vectored
\* awaits before each write, read_exact before each read
CancelDrop ==
    /\ cli["AsyncClient"].pc \in
          {"send_vectored", "read_len", "read_state", "read_data"}
    /\ cli' = [cli EXCEPT !["AsyncClient"] = AsyncClient_drop_future(@)]
    /\ UNCHANGED <<sock, plan, srv>>
    /\ UNCHANGED <<BuildVars, FacadeVars, X11Vars>>

\* the caller takes the result of a call that returned
CancelResult ==
    /\ cli["AsyncClient"].pc = "idle" /\ cli["AsyncClient"].ret # NoRet
    /\ ~server_has_request(sock["AsyncClient"].tx)
    /\ cli' = [cli EXCEPT !["AsyncClient"] = IdleClient]
    /\ sock' = [sock EXCEPT !["AsyncClient"].offered = <<>>]
    /\ srv' = [srv EXCEPT !["AsyncClient"] = NoRequest]
    /\ UNCHANGED plan
    /\ UNCHANGED <<BuildVars, FacadeVars, X11Vars>>

InitCancel ==
    /\ InitBuild
    /\ xcb = FALSE
    /\ InitSockets
    /\ InitFacade

NextCancel ==
    \/ CancelCall
    \/ CancelClient
    \/ CancelServer
    \/ CancelDrop
    \/ CancelResult

SpecCancel == InitCancel /\ [][NextCancel]_vars

\* ------------------------------------------------------------- properties
\* the 8 bytes of a length below 256 in the platform's byte order
LenBytes(n) ==
    IF endian = "little" THEN <<n, 0, 0, 0, 0, 0, 0, 0>>
    ELSE <<0, 0, 0, 0, 0, 0, 0, n>>

\* the request frame the wire format prescribes
ExpectedFrame(form, is_async) ==
    <<IF is_async THEN 1 ELSE 0>> \o LenBytes(Len(form)) \o form

\* the call of client c has returned
Finished(c) == c.pc = "idle" /\ c.ret # NoRet

ReadStates == {"read_len", "read_state", "read_data"}

\* the bytes offered to the call begin with a whole response frame of total
\* length L
FrameOffered(o, L) == Len(o) >= 8 + L /\ SubSeq(o, 1, 8) = LenBytes(L)

\* C1: on both socket clients, a synchronous eval whose request was written
\* and which was offered a whole response frame of total length L >= 1
\* returns Success(payload) when the status byte is 1 and Failure(payload)
\* for every other status byte, payload being the L - 1 bytes after the
\* status byte.
C1_StatusByte ==
    \A v \in Variants : \A L \in 1..(MaxBody + 2) :
        LET c == cli[v]
            o == sock[v].offered
        IN  (/\ Finished(c) /\ ~c.is_async
             /\ c.sent = ExpectedFrame(c.form, FALSE)
             /\ FrameOffered(o, L))
            => c.ret = [tag |-> IF o[9] = 1 THEN "Success" ELSE "Failure",
                        data |-> SubSeq(o, 10, 8 + L)]

\* a Failure whose status byte is 2 and whose payload is the bytes 1, 0
C1_Witness ==
    /\ Finished(cli["AsyncClient"])
    /\ FrameOffered(sock["AsyncClient"].offered, 3)
    /\ sock["AsyncClient"].offered[9] = 2
    /\ cli["AsyncClient"].ret = Ok_Err(<<1, 0>>)
    /\ cli["Client"].ret = Ok_Err(<<1, 0>>)

\* C3: a fire-and-forget eval reads no byte of the stream and never enters
\* read_response; once the whole request frame is written it has returned
\* Success(empty), and it returns nothing but Success(empty) or the write's
\* error.
C3_FireAndForget ==
    \A v \in Variants :
        LET c == cli[v]
        IN  c.is_async =>
              /\ c.got = <<>>
              /\ c.pc \notin ReadStates
              /\ c.sent = ExpectedFrame(c.form, TRUE) => c.ret = Ok_Ok(<<>>)
              /\ Finished(c) => c.ret \in {Ok_Ok(<<>>), Err_Io}
              /\ c.ret = Ok_Ok(<<>>) => c.sent = ExpectedFrame(c.form, TRUE)

\* a fire-and-forget call has returned Success(empty) while unread bytes
\* were waiting on the stream
C3_Witness ==
    /\ cli["Client"].is_async
    /\ cli["Client"].form # <<>>
    /\ cli["Client"].ret = Ok_Ok(<<>>)
    /\ sock["Client"].rx # <<>>

\* C5: the bytes a socket request writes are a prefix of kind byte (0 sync,
\* 1 fire-and-forget), the form's length as 8 native-endian bytes, the form;
\* they are all of it once the write has completed; and the peer then holds
\* nothing but that one whole frame, whose length field counts its form.
C5_RequestFrame ==
    \A v \in Variants :
        LET c == cli[v]
            F == ExpectedFrame(c.form, c.is_async)
            t == sock[v].tx
        IN  /\ c # IdleClient => c.sent \in Prefixes(F)
            /\ (c.pc \in ReadStates \/ (Finished(c) /\ c.ret # Err_Io))
                  => c.sent = F
            /\ (c.sent = F /\ t # <<>>)
                  => /\ t = F
                     /\ server_has_request(t)
                     /\ server_request(t).size = Len(t)

\* a whole fire-and-forget frame with a non-empty form on a big-endian build
C5_Witness ==
    /\ endian = "big"
    /\ cli["Client"].sent = <<1, 0, 0, 0, 0, 0, 0, 0, 1, 2>>
    /\ sock["Client"].tx = cli["Client"].sent
    /\ Finished(cli["Client"])

\* the async client or its peer can take a step
AsyncClientBusy ==
    \/ server_has_request(sock["AsyncClient"].tx) /\ plan.set
    \/ cli["AsyncClient"].pc = "send_vectored"
    \/ /\ cli["AsyncClient"].pc \in ReadStates
       /\ (sock["AsyncClient"].rx # <<>> \/ sock["AsyncClient"].eof)

\* C7: given the same form and flag, the same write failure and the same
\* response bytes, the blocking and the async socket client have, once
\* neither can go further, written the same bytes, read the same bytes and
\* returned the same outcome (or both are still waiting for a response).
C7_Equivalent ==
    (~ClientBusy /\ ~AsyncClientBusy) =>
        /\ cli["Client"].sent = cli["AsyncClient"].sent
        /\ cli["Client"].got = cli["AsyncClient"].got
        /\ cli["Client"].ret = cli["AsyncClient"].ret
        /\ (cli["Client"].pc = "idle") = (cli["AsyncClient"].pc = "idle")

\* both clients have returned the same Success with its payload
C7_Witness ==
    /\ ~ClientBusy /\ ~AsyncClientBusy
    /\ cli["Client"].ret = Ok_Ok(<<2, 1>>)
    /\ cli["AsyncClient"].ret = Ok_Ok(<<2, 1>>)
    /\ cli["Client"].sent = ExpectedFrame(<<1>>, FALSE)

\* read_response has run to its end on the bytes of the request frame
Decoded(c) == Finished(c) /\ c.got # <<>>

\* C6 as stated: read_response, the codec's decoder, run on the bytes of
\* encode(f, a) gives back the form as its payload and the kind as its
\* status (1, fire-and-forget, being Success).
C6_DecodeIsReadResponse ==
    LET c == cli["Client"]
    IN  Decoded(c) =>
          c.ret = [tag |-> IF c.is_async THEN "Success" ELSE "Failure",
                   data |-> c.form]

\* C6: the request frame of every form f and flag a, decoded as the peer
\* decodes requests (kind byte, native-endian length, that many bytes),
\* gives back the kind (0 sync, 1 fire-and-forget) and the bytes of f, and
\* the frame ends where the decoded form ends.
C6_RoundTrip ==
    LET c == cli["Client"]
        t == sock["Client"].tx
        kind == IF c.is_async THEN 1 ELSE 0
    IN  /\ (c.sent # <<>> /\ t = c.sent /\ c.pc \notin {"send_buf", "send_form"})
             => /\ server_has_request(t)
                /\ server_request(t) =
                     [kind |-> kind, form |-> c.form, size |-> Len(t)]
        /\ srv["Client"] # NoRequest
             => srv["Client"] = [kind |-> kind, form |-> c.form]

\* the peer has decoded a fire-and-forget request with a non-empty form
C6_Witness ==
    /\ srv["Client"] = [kind |-> 1, form |-> <<2>>]
    /\ cli["Client"].form = <<2>>
    /\ cli["Client"].is_async

\* the X11 client's call has returned
x11_Finished == x11.pc = "idle" /\ x11.ret # NoRet

\* the X11 client's read_response ended on a reply, not on an X error
x11_ReadReply == x11_Finished /\ ~x11.is_async /\ x11.reads >= 1 /\ x11.ret # Err_Io

C4_FailureIsNotError ==
    /\ fac.inner = "Unix" =>
         LET c == cli["Client"]
             o == sock["Client"].offered
             s == sock["Client"]
         IN  Finished(c) =>
               /\ c.ret.tag \in {"Success", "Failure", "NoResponse",
                                 "ResponseTooLarge", "Io"}
               /\ \A L \in 1..(MaxBody + 2) :
                     (/\ ~c.is_async
                      /\ c.sent = ExpectedFrame(c.form, FALSE)
                      /\ FrameOffered(o, L)
                      /\ o[9] # 1)
                     => c.ret = Ok_Err(SubSeq(o, 10, 8 + L))
               /\ c.ret = Err_Io => (s.wcap = 0 \/ (s.eof /\ s.rx = <<>>))
               /\ c.ret = Err_NoResponse => c.got = U64Zero
               /\ c.ret.tag = "ResponseTooLarge" =>
                     /\ usize_bits = 32
                     /\ Len(c.got) = 8
                     /\ \A L \in 0..255 : c.got # LenBytes(L)
    /\ (fac.inner = "X11" /\ x11_Finished) =>
           /\ x11.ret.tag \in {"Success", "Failure", "NoResponse",
                               "BadResponse", "Io"}
           /\ (/\ x11_ReadReply
               /\ x11.seen.type = ATOM_STRING /\ x11.seen.format = 8
               /\ x11.seen.value # <<>>
               /\ Head(x11.seen.value) # 1)
              => x11.ret = Ok_Err(Tail(x11.seen.value))
           /\ x11.ret.tag = "BadResponse" =>
                 (x11.seen.type # ATOM_STRING \/ x11.seen.format # 8)
           /\ x11.ret = Err_NoResponse => x11.seen.value = <<>>

\* over the property transport, a reply of status 0 with payload 1, 2 is
\* returned as Failure(1, 2)
C4_Witness ==
    /\ fac.inner = "X11"
    /\ x11.seen.value = <<0, 1, 2>>
    /\ x11.ret = Ok_Err(<<1, 2>>)

Range(s) == {s[i] : i \in DOMAIN s}

\* C8: open connects to the X server only after the socket attempt has
\* failed (no path, or the connect failed); once the socket has connected no
\* X connection is made or exists, and the Client uses the socket.
C8_SocketFirst ==
    /\ \A i \in 1..Len(log) :
          log[i] = "x11_connect" =>
             i > 1 /\ log[i - 1] \in {"unix_path_error", "unix_connect_error"}
    /\ "unix_connect_ok" \in Range(log) =>
          /\ log = <<"unix_connect_ok">>
          /\ x11 = NoX11Client /\ xs = XClosed
          /\ fac.inner = "Unix" /\ fac.pc \in {"opened", "dropped"}
    /\ fac.inner = "Unix" => log = <<"unix_connect_ok">>
    /\ (x11 # NoX11Client \/ xs # XClosed \/ fac.inner = "X11") =>
          /\ Len(log) >= 1
          /\ log[1] \in {"unix_path_error", "unix_connect_error"}

\* with the fallback built in, the socket connected and a call has gone
\* over it
C8_Witness ==
    /\ xcb
    /\ fac.inner = "Unix"
    /\ Finished(cli["Client"])
    /\ cli["Client"].ret.tag = "Success"

\* the socket path of display ":d" for LOGNAME "u" on host.local
ExpectedPath(display) ==
    <<"/tmp/.sawfish-", "u", "/", "h", "o", "s", "t", ".", "l", "o", "c", "a",
      "l", ":", display[2], ".", "0">>

\* C9: built without the fallback, open never connects to the X server, no
\* X11 client ever exists, a failed open returns the socket transport's
\* error as the socket produced it (NoLogname, or Io with the socket's path),
\* and every opened Client holds the socket transport.
C9_NoFallback ==
    ~xcb =>
      /\ "x11_connect" \notin Range(log)
      /\ x11 = NoX11Client /\ xs = XClosed
      /\ fac.inner # "X11" /\ fac.pc # "x11"
      /\ fac.pc = "failed" =>
            \/ log = <<>> /\ fac.ret = ConnError("NoDisplay")
            \/ /\ log = <<"unix_path_error">>
               /\ fac.ret = ConnError("NoLogname")
            \/ /\ log = <<"unix_connect_error">>
               /\ \E e \in ConnectErrors :
                     fac.ret = ConnError_Io(ExpectedPath(fac.display), e)
      /\ fac.pc = "opened" => fac.inner = "Unix"
      /\ cli["Client"] # IdleClient => fac.inner = "Unix"

\* built without the fallback, open has failed with the socket's Io error
\* for the display taken from $DISPLAY
C9_Witness ==
    /\ ~xcb
    /\ fac.pc = "failed"
    /\ fac.ret.tag = "Io"
    /\ fac.display = <<":", "1">>

\* C10: from the moment open has chosen a transport, no step changes it,
\* makes a connection attempt or takes the Client back into open; the
\* transport not chosen is never touched.
C10_TransportFixed ==
    /\ [](/\ fac.inner = "Unix" => (x11 = NoX11Client /\ xs = XClosed)
          /\ fac.inner = "X11" =>
                (cli["Client"] = IdleClient /\ sock["Client"] = OpenSocket))
    /\ [][fac.inner # "none" =>
             /\ fac'.inner = fac.inner
             /\ log' = log
             /\ fac'.pc \in {"opened", "dropped"}]_vars

\* a call has begun on the property transport while the property still
\* holds the mistyped reply that failed the call before it
C10_Witness ==
    /\ fac.inner = "X11"
    /\ x11.pc = "change_property"
    /\ xs.prop.type = ATOM_CARDINAL

\* open has returned to its caller
open_returned == fac.pc \in {"failed", "opened", "dropped"}

\* the connections open has attempted, on either transport
connection_attempts ==
    {i \in 1..Len(log) :
        log[i] \in {"unix_connect_ok", "unix_connect_error", "x11_connect"}}

\* open was given no display: no argument and $DISPLAY unset or empty, or an
\* empty argument
NoDisplayGiven ==
    /\ fac.pc \in {"unix", "fallback", "x11", "failed"}
    /\ \/ fac.arg = <<>> /\ fac.env \in {<<>>, << <<>> >>}
       \/ fac.arg = << <<>> >>

\* open found LOGNAME unset when it computed the socket path
LognameUnset == log # <<>> /\ log[1] = "unix_path_error"

\* C11 as stated: with no display, or with LOGNAME unset, open attempts no
\* connection on any transport and returns NoDisplay, respectively NoLogname.
C11_ConfigErrorBeforeConnect ==
    /\ NoDisplayGiven =>
          /\ connection_attempts = {}
          /\ fac.pc = "failed" /\ fac.ret = ConnError("NoDisplay")
    /\ LognameUnset =>
          /\ connection_attempts = {}
          /\ open_returned =>
                (fac.pc = "failed"
                 /\ fac.ret = ConnError("NoLogname"))

\* C11: with no display open returns NoDisplay at once, having attempted no
\* connection, and NoDisplay is returned in no other case. With LOGNAME
\* unset the socket is never connected to; built without the property
\* transport, open then returns NoLogname having attempted no connection;
\* built with it, open goes on to connect to the X server and returns what
\* the property transport's open returns, never NoLogname.
C11_ConfigErrors ==
    /\ NoDisplayGiven =>
          /\ log = <<>> /\ x11 = NoX11Client /\ xs = XClosed
          /\ fac.pc = "failed" /\ fac.ret = ConnError("NoDisplay")
    /\ fac.ret.tag = "NoDisplay" => (NoDisplayGiven /\ fac.display = <<>>)
    /\ LognameUnset =>
          /\ \A i \in 1..Len(log) :
                log[i] \notin {"unix_connect_ok", "unix_connect_error"}
          /\ fac.inner # "Unix"
          /\ ~xcb =>
                /\ log = <<"unix_path_error">>
                /\ xs = XClosed
                /\ fac.pc \in {"fallback", "failed"}
                /\ fac.pc = "failed" =>
                      fac.ret = ConnError("NoLogname")
          /\ (xcb /\ open_returned) =>
                /\ log = <<"unix_path_error", "x11_connect">>
                /\ fac.pc = "failed" =>
                      fac.ret.tag \in {"X11", "BadScreen", "ServerNotFound"}
                /\ fac.pc \in {"opened", "dropped"} => fac.inner = "X11"
    /\ fac.ret.tag = "NoLogname" =>
          (~xcb /\ fac.pc = "failed" /\ log = <<"unix_path_error">>)

\* with LOGNAME unset and the property transport built in, open has
\* connected to the X server and returned a Client on it
C11_Witness ==
    /\ LognameUnset
    /\ xcb
    /\ fac.pc = "opened" /\ fac.inner = "X11"
    /\ log = <<"unix_path_error", "x11_connect">>

\* the typed errors open and eval return
ConnErrorTags ==
    {"NoDisplay", "NoLogname", "Io", "BadScreen", "ServerNotFound", "X11"}
EvalErrorTags == {"NoResponse", "ResponseTooLarge", "Io", "BadResponse"}

C13_NoRetry ==
    /\ [](/\ LET c == cli["Client"]
                  frame == ExpectedFrame(c.form, c.is_async)
              IN  c.pc # "idle" \/ c.ret # NoRet =>
                    /\ c.sent \in Prefixes(frame)
                    /\ c.sent # frame => (c.got = <<>> /\ c.pc \notin ReadStates)
                    /\ (Finished(c) /\ c.sent # frame) => c.ret = Err_Io
          /\ x11.sends <= 1
          /\ x11.err # "none" => x11.pc = "idle"
          /\ x11.err = "ChangeProperty" => (x11.sends = 0 /\ x11.reads = 0)
          /\ x11.err = "SendEvent" => (x11.sends = 0 /\ x11.reads = 0)
          /\ (x11.err = "wait_for_event" /\ x11.sends = 0) => x11.reads = 0
          /\ x11.is_async => x11.reads = 0)
    /\ [][LET c == cli["Client"]  d == cli'["Client"]
              s == sock["Client"]  t == sock'["Client"]
          IN  /\ (c.ret = NoRet /\ d.ret = Err_Io) => t = s
              /\ Finished(c) =>
                    /\ d \in {c, IdleClient}
                    /\ Len(t.tx) <= Len(s.tx) /\ Len(t.rx) >= Len(s.rx)
              /\ (x11.err = "none" /\ x11'.err # "none") => xs' = xs
              /\ x11_Finished =>
                    /\ x11' \in {x11, [NoX11Client EXCEPT !.pc = "idle"]}
                    /\ Len(xs'.msgs) <= Len(xs.msgs)
                    /\ xs'.up => xs'.prop \in {xs.prop} \cup Replies]_vars

\* a write failed inside the request frame while unread bytes were waiting
\* on the stream: the call returned Io and read none of them
C13_Witness ==
    /\ fac.inner = "Unix"
    /\ Finished(cli["Client"])
    /\ cli["Client"].ret = Err_Io
    /\ Len(cli["Client"].sent) \in 1..8
    /\ cli["Client"].got = <<>>
    /\ sock["Client"].rx # <<>>

\* the property transport's open has passed discovery
past_discovery == x11.pc = "create_window" \/ fac.inner = "X11"

\* the property transport's open has read the root window's property
root_property_read ==
    /\ fac.pc \in {"x11", "failed"}
    /\ x11.req_win_atom = "atom" /\ x11.reads = 1

\* C14 as stated: open gets past discovery only if the request-window atom
\* exists and the root window's property is a CARDINAL of format 32 holding
\* exactly one value.
C14_ExactlyOneValue ==
    (fac.pc = "x11" /\ x11.pc = "create_window") =>
        /\ x11.req_win_atom = "atom"
        /\ x11.seen.type = ATOM_CARDINAL
        /\ x11.seen.format = Window_FORMAT
        /\ Len(x11.seen.value) = 4

\* C14: the property transport's open returns ServerNotFound exactly when
\* the request-window atom does not exist, or the one-word read of the root
\* window's property shows it absent, of a type other than CARDINAL, of a
\* format other than 32, or empty. It gets past discovery only when the atom
\* exists and the property is a CARDINAL of format 32 holding at least one
\* value (the read asks for one word, so values after the first are not
\* seen).
C14_ServerNotFound ==
    /\ (fac.pc = "failed" /\ x11.req_win_atom = "none") =>
          fac.ret = ConnError("ServerNotFound")
    /\ (fac.pc = "failed" /\ root_property_read) =>
          (fac.ret.tag = "ServerNotFound")
             = (\/ x11.seen = NoProperty
                \/ x11.seen.type # ATOM_CARDINAL
                \/ x11.seen.format # Window_FORMAT
                \/ Len(x11.seen.value) < 4)
    /\ fac.ret.tag = "ServerNotFound" =>
          /\ fac.pc = "failed" /\ ~xs.up /\ ~xs.portal
          /\ x11.req_win_atom = "none" \/ root_property_read
    /\ (fac.pc = "x11" /\ x11.pc = "create_window") =>
          /\ x11.req_win_atom = "atom" /\ x11.reads = 1
          /\ x11.seen.type = ATOM_CARDINAL
          /\ x11.seen.format = Window_FORMAT
          /\ Len(x11.seen.value) >= 4
    /\ fac.inner = "X11" => "x11_connect" \in Range(log)

\* the root window's property is a CARDINAL of format 8: open has returned
\* ServerNotFound
C14_Witness ==
    /\ fac.pc = "failed"
    /\ fac.ret.tag = "ServerNotFound"
    /\ x11.seen = [type |-> ATOM_CARDINAL, format |-> 8, value |-> <<req_win_id>>]

\* C15: a portal window exists at the X server only while a Client opened
\* on the property transport owns it over a live connection. Whenever the
\* property transport's open has failed - at the connection, the screen,
\* the discovery, an X request or CreateWindow - no portal exists and the
\* connection is closed; none exists while open is still running either.
C15_NoPortalLeft ==
    /\ xs.portal => (fac.pc = "opened" /\ fac.inner = "X11" /\ xs.up)
    /\ fac.pc \in {"init", "unix", "fallback", "x11", "failed"} =>
          (~xs.portal /\ xs.prop = NoProperty)
    /\ fac.pc = "failed" => ~xs.up
    /\ (fac.pc = "failed" /\ "x11_connect" \in Range(log)) =>
          fac.ret.tag \in {"X11", "BadScreen", "ServerNotFound"}

\* open has failed at CreateWindow, after a discovery that found the server
C15_Witness ==
    /\ fac.pc = "failed"
    /\ fac.ret.tag = "X11"
    /\ x11.req_win_atom = "atom" /\ x11.reads = 1
    /\ x11.seen = [type |-> ATOM_CARDINAL, format |-> Window_FORMAT,
                   value |-> req_win_bytes]
    /\ ~xs.portal

\* C16: once a Client on the property transport has been dropped, its
\* portal window does not exist at the X server, whether or not the
\* DestroyWindow request took effect; the drop returns nothing: no error of
\* open or eval appears with it, and the portal never comes back.
C16_DropDestroysPortal ==
    /\ [](fac.pc = "dropped" =>
            /\ ~xs.portal /\ ~xs.up /\ xs.prop = NoProperty
            /\ fac.ret = NoConnError
            /\ fac.inner = "X11" =>
                  (x11 = NoX11Client /\ xs.destroy \in {"done", "failed"}))
    /\ [](xs.destroy # "none" => (fac.pc = "dropped" /\ fac.inner = "X11"))
    /\ [][(fac.pc = "opened" /\ fac'.pc = "dropped") =>
             /\ ~xs'.portal
             /\ fac'.ret = fac.ret /\ fac'.inner = fac.inner
             /\ fac.inner = "X11" => (x11.pc = "idle" /\ x11.ret = NoRet)]_vars
    /\ [][fac.pc = "dropped" => (fac' = fac /\ xs' = xs /\ x11' = x11)]_vars

\* a Client on the property transport was dropped and its DestroyWindow
\* request did not take effect: the portal is gone all the same
C16_Witness ==
    /\ fac.pc = "dropped"
    /\ fac.inner = "X11"
    /\ xs.destroy = "failed"
    /\ ~xs.portal

\* C17: when read_response ends on a reply property of N >= 1 bytes (a
\* STRING of format 8), the status is its first byte and the payload the
\* other N - 1 bytes, in order and complete, and they are the bytes of the
\* one reply that covered the whole value (bytes_after = 0). A value longer
\* than the initial window of 16 words takes more than one read, and after
\* every partial reply the window is enlarged to cover the whole of the
\* value that reply was cut from, so that the next read returns it whole
\* unless the property was replaced by a longer one in between.
C17_IncrementalRead ==
    fac.inner = "X11" =>
      LET v == x11.seen.value
          N == Len(v)
      IN  /\ (/\ x11_ReadReply
               /\ x11.seen.type = ATOM_STRING /\ x11.seen.format = 8
               /\ N >= 1) =>
                /\ x11.ret = [tag |-> IF v[1] = 1 THEN "Success" ELSE "Failure",
                              data |-> [i \in 1..(N - 1) |-> v[i + 1]]]
                /\ N > 4 * InitialLongLength => x11.reads >= 2
                /\ 4 * x11.long_length >= N
                /\ GetProperty(x11.seen, ATOM_STRING, x11.long_length)
                      = [type |-> ATOM_STRING, format |-> 8, bytes_after |-> 0,
                         value |-> v]
          /\ (x11.pc = "read" /\ x11.reads >= 1) =>
                /\ x11.seen.type = ATOM_STRING /\ x11.seen.format = 8
                /\ N > 4 * InitialLongLength
                /\ x11.long_length > InitialLongLength
                /\ 4 * x11.long_length >= N
                /\ 4 * x11.long_length < N + 8

\* a reply of 69 bytes was read in two reads and returned whole
C17_Witness ==
    /\ fac.inner = "X11"
    /\ x11_Finished
    /\ x11.reads = 2
    /\ x11.ret.tag = "Success"
    /\ Len(x11.ret.data) = 4 * InitialLongLength + 4
    /\ x11.ret.data[4 * InitialLongLength + 4] = 4 * InitialLongLength + 5

\* C18: when the reply property read by read_response is not a STRING of
\* format 8, eval returns BadResponse with the portal window, the property
\* atom and the type and format the reply showed (None and 0 for a property
\* that does not exist), and in no other case. This holds for every read of
\* the loop: the loop goes on to another read only after a reply of type
\* STRING and format 8, and the read that shows another type or format is
\* the call's last.
C18_BadResponse ==
    fac.inner = "X11" =>
      LET bad == x11.seen.type # ATOM_STRING \/ x11.seen.format # 8
      IN  /\ (x11_ReadReply /\ bad) =>
                x11.ret = [tag |-> "BadResponse",
                           data |-> <<portal_id, property_id,
                                      x11.seen.type, x11.seen.format>>]
          /\ (x11_Finished /\ x11.ret.tag = "BadResponse") =>
                /\ bad /\ ~x11.is_async /\ x11.reads >= 1
                /\ x11.err = "none"
          /\ (x11.pc = "read" /\ x11.reads >= 1) => ~bad
          /\ (x11_Finished /\ x11.ret.tag \in {"Success", "Failure"}
                /\ ~x11.is_async) => ~bad

\* the second read of the loop found the property replaced by a CARDINAL
\* and the call returned BadResponse
C18_Witness ==
    /\ fac.inner = "X11"
    /\ x11_Finished
    /\ x11.reads = 2
    /\ x11.ret = [tag |-> "BadResponse",
                  data |-> <<portal_id, property_id, ATOM_CARDINAL,
                             Window_FORMAT>>]

\* C19: when the caller drops the async client's eval or send while it is
\* in flight, what the call has written to the stream is the whole request
\* frame or nothing.
C19_AllOrNothing ==
    LET c == cli["AsyncClient"]
    IN  c.pc = "dropped" =>
           c.sent \in {<<>>, ExpectedFrame(c.form, c.is_async)}

\* the call of client c read a whole length header whose value is not zero
\* and whose value less one does not fit usize
TooLargeHeader(c) ==
    /\ Finished(c) /\ ~c.is_async
    /\ Len(c.got) >= 8
    /\ from_ne_bytes(SubSeq(c.got, 1, 8)) # U64Zero
    /\ ~usize_try_from_ok(u64_sub_one(from_ne_bytes(SubSeq(c.got, 1, 8))))

\* read_response as written: after such a header the call returns the
\* error with res_len - 1, a u64, and has read the eight header bytes only;
\* res_len - 1 is computed for non-zero res_len only
C20_RejectedAfterHeader ==
    \A v \in {"Client", "AsyncClient"} :
       LET c == cli[v]
       IN  /\ TooLargeHeader(c) =>
                /\ c.ret = Err_ResponseTooLarge(
                              u64_sub_one(from_ne_bytes(SubSeq(c.got, 1, 8))))
                /\ Len(c.got) = 8
           /\ c.pc \in {"read_state", "read_data"} =>
                /\ from_ne_bytes(SubSeq(c.got, 1, 8)) # U64Zero
                /\ c.data_len =
                      u64_sub_one(from_ne_bytes(SubSeq(c.got, 1, 8)))

\* C20: when the decoded total length is not zero and payload_len =
\* total_len - 1 does not fit the platform's size type, eval fails with
\* ResponseTooLarge(payload_len), a value of the variant's declared field
\* type, before it reads the status byte or any payload byte.
C20_ResponseTooLarge ==
    \A v \in {"Client", "AsyncClient"} :
       LET c == cli[v]
       IN  TooLargeHeader(c) =>
              /\ c.ret = Err_ResponseTooLarge(
                            u64_sub_one(from_ne_bytes(SubSeq(c.got, 1, 8))))
              /\ c_ulong_holds(c.ret.data)
              /\ Len(c.got) = 8

\* ---- canonical_display, read off its argument character by character
\* the name without the "unix" of a leading "unix:"
Unprefixed(name) ==
    IF Len(name) >= 5 /\ SubSeq(name, 1, 5) = <<"u", "n", "i", "x", ":">>
    THEN SubSeq(name, 5, Len(name)) ELSE name

\* position of the first ch of s at or after position from, 0 if none
FirstAt(s, ch, from) ==
    IF \E i \in from..Len(s) : s[i] = ch
    THEN CHOOSE i \in from..Len(s) :
            s[i] = ch /\ \A j \in from..(i - 1) : s[j] # ch
    ELSE 0

\* the three parts of a name: what stands before the first colon, between
\* it and the next dot, and after that dot; absent is told from empty
NameParts(name) ==
    LET n == Unprefixed(name)
        colon == FirstAt(n, ":", 1)
        dot == IF colon = 0 THEN 0 ELSE FirstAt(n, ".", colon + 1)
    IN  [host |-> IF colon = 0 THEN n ELSE SubSeq(n, 1, colon - 1),
         has_display |-> colon # 0,
         display |-> IF colon = 0 THEN <<>>
                     ELSE SubSeq(n, colon + 1,
                                 IF dot = 0 THEN Len(n) ELSE dot - 1),
         has_screen |-> dot # 0,
         screen |-> IF dot = 0 THEN <<>> ELSE SubSeq(n, dot + 1, Len(n))]

HostLocal == <<"h", "o", "s", "t", ".", "l", "o", "c", "a", "l">>
DotLocal == <<".", "l", "o", "c", "a", "l">>

\* the lower-case, fully qualified host the resolver of the test build
\* gives
ExpectedHost(host) ==
    LET lower == [i \in 1..Len(host) |->
                    CASE host[i] = "H" -> "h" [] host[i] = "O" -> "o"
                      [] host[i] = "S" -> "s" [] host[i] = "T" -> "t"
                      [] OTHER -> host[i]]
    IN  IF host = <<>> THEN HostLocal
        ELSE IF host = <<"n", "o", "f", "q">> THEN host
        ELSE IF \E i \in 1..Len(host) : host[i] = "." THEN lower
        ELSE lower \o DotLocal

canonical_display_returned == fac.pc = "canonical"

\* C21 as stated: the result is host:display.screen, in which a display
\* that the name leaves out (no colon, or nothing between the colon and the
\* dot or the end) is 0 and a screen that it leaves out (no dot, or nothing
\* after the dot) is 0.
C21_OmittedIsZero ==
    canonical_display_returned =>
       LET p == NameParts(fac.arg[1])
       IN  fac.display =
              ExpectedHost(p.host) \o <<":">>
              \o (IF p.display = <<>> THEN <<"0">> ELSE p.display)
              \o <<".">>
              \o (IF p.screen = <<>> THEN <<"0">> ELSE p.screen)

\* C21: canonical_display returns host:display.screen, where host is the
\* local canonical hostname when the name has none (the empty name and a
\* leading "unix:" included) and the given host, canonicalised and in lower
\* case, otherwise; display is 0 when the name has no colon and screen is 0
\* when no dot follows the colon; a colon or a dot with nothing after it
\* leaves that part empty. The names of the code's test give the results
\* the test states.
C21_CanonicalDisplay ==
    canonical_display_returned =>
       LET name == fac.arg[1]
           p == NameParts(name)
       IN  /\ fac.display =
                ExpectedHost(p.host) \o <<":">>
                \o (IF p.has_display THEN p.display ELSE <<"0">>)
                \o <<".">>
                \o (IF p.has_screen THEN p.screen ELSE <<"0">>)
           /\ name \in {<<>>, <<":", "0">>}
                => fac.display = HostLocal \o <<":", "0", ".", "0">>
           /\ name = <<":", "0", ".", "1">>
                => fac.display = HostLocal \o <<":", "0", ".", "1">>
           /\ name = <<"h", "o", "s", "t", ":", "0">>
                => fac.display = HostLocal \o <<":", "0", ".", "0">>
           /\ name = <<"b", "o", "g", "u", "s">>
                => fac.display = <<"b", "o", "g", "u", "s">> \o DotLocal
                                   \o <<":", "0", ".", "0">>
           /\ name = <<"u", "n", "i", "x", ":", "0">>
                => fac.display = HostLocal \o <<":", "0", ".", "0">>

\* "unix:0.1" has been turned into host.local:0.1
C21_Witness ==
    /\ canonical_display_returned
    /\ fac.arg = Some(<<"u", "n", "i", "x", ":", "0", ".", "1">>)
    /\ fac.display = HostLocal \o <<":", "0", ".", "1">>

\* the canonical display of a name, read off its parts
ExpectedDisplay(name) ==
    LET p == NameParts(name)
    IN  ExpectedHost(p.host) \o <<":">>
        \o (IF p.has_display THEN p.display ELSE <<"0">>)
        \o <<".">>
        \o (IF p.has_screen THEN p.screen ELSE <<"0">>)

unix_open_returned ==
    fac.pc \in {"opened", "failed"} /\ log # <<>>

\* C22: unix::Client::open connects to /tmp/.sawfish-<LOGNAME>/<canonical
\* display> and to nothing else; a failed connect is returned as
\* ConnError::Io with that same path and the I/O error of the connect; with
\* LOGNAME unset it returns NoLogname and no connect is made.
C22_SocketOpen ==
    unix_open_returned =>
       /\ Len(log) = 1
       /\ fac.logname = None =>
             /\ fac.pc = "failed" /\ fac.ret = ConnError("NoLogname")
             /\ fac.path = None
             /\ log = <<"unix_path_error">>
       /\ fac.logname # None =>
             /\ fac.path = Some(<<"/tmp/.sawfish-">> \o fac.logname[1]
                                \o <<"/">> \o ExpectedDisplay(fac.arg[1]))
             /\ log[1] \in {"unix_connect_ok", "unix_connect_error"}
             /\ log[1] = "unix_connect_ok" =>
                   (fac.pc = "opened" /\ fac.inner = "Unix")
             /\ log[1] = "unix_connect_error" =>
                   /\ fac.pc = "failed"
                   /\ fac.ret.tag = "Io"
                   /\ fac.ret.path = fac.path[1]
                   /\ fac.ret.io \in ConnectErrors

\* for LOGNAME root and display "unix:0" the connect to
\* /tmp/.sawfish-root/host.local:0.0 was refused and open returned Io with
\* that path and error
C22_Witness ==
    /\ fac.pc = "failed"
    /\ fac.arg = Some(<<"u", "n", "i", "x", ":", "0">>)
    /\ fac.ret = ConnError_Io(<<"/tmp/.sawfish-", "r", "o", "o", "t", "/">>
                                \o HostLocal \o <<":", "0", ".", "0">>,
                              "ConnectionRefused")

\* C23: on the property transport the PropertyNotify that send_request
\* swallows is the one of its own ChangeProperty, the PropertyNotify that a
\* synchronous eval wakes on is the one of the server's reply, and a value is
\* returned only when the server has handled the request's client message.
C23_EventCorrelation ==
    fac.inner = "X11" =>
       /\ x11.pc = "send_event" => x11.by = "client"
       /\ x11.pc = "read" => x11.by = "server"
       /\ (x11_Finished /\ ~x11.is_async
             /\ x11.ret.tag \in {"Success", "Failure"}) => xs.msgs = <<>>

\* C24: on the socket transport, with calls made one at a time and a peer
\* that answers every synchronous request once, in order, and no
\* fire-and-forget request, the k-th synchronous eval returns the reply to
\* the k-th synchronous request (its number and its form are the reply's
\* payload); a send returns Success(empty) and reads nothing; no reply is
\* left unread or read twice.
C24_Aligned ==
    LET c == cli["Client"]
        k == Count(log, "eval")
    IN  /\ (c.pc = "idle" /\ c.ret # NoRet /\ ~c.is_async) =>
              /\ c.ret.tag \in {"Success", "Failure"}
              /\ c.ret.data = <<k>> \o c.form
              /\ Count(log, "reply") = k
              /\ sock["Client"].rx = <<>>
        /\ (c.pc = "idle" /\ c.ret # NoRet /\ c.is_async) =>
              /\ c.ret = Ok_Ok(<<>>)
              /\ c.got = <<>>
        /\ Count(log, "reply") <= k
        /\ c.pc \in {"idle", "send_buf", "send_form"} => sock["Client"].rx = <<>>

\* the second synchronous eval, made after a send, has returned the second
\* reply
C24_Witness ==
    /\ log = <<"eval", "reply", "send", "eval", "reply">>
    /\ cli["Client"].pc = "idle"
    /\ cli["Client"].form = <<2>>
    /\ cli["Client"].ret = Ok_Err(<<2, 2>>)

\* C25: within one request on the property transport the client message is
\* sent only after a matching PropertyNotify was consumed, which is waited
\* for only after ChangeProperty has put the request's form into the
\* communication property and the X server has confirmed it; the message is
\* sent once.
C25_RequestOrder ==
    /\ [][ xs'.msgs # xs.msgs /\ Len(xs'.msgs) > Len(xs.msgs) =>
             /\ x11.pc = "send_event" /\ x11.sends = 0 /\ x11'.sends = 1
             /\ x11.by # "none"
             /\ xs'.msgs = Append(xs.msgs, client_message(x11.is_async)) ]_vars
    /\ [][ (x11'.pc = "send_event" /\ x11.pc # "send_event") =>
             /\ x11.pc = "swallow"
             /\ xs.events # <<>> /\ is_property_notify(Head(xs.events))
             /\ xs'.events = Tail(xs.events)
             /\ xs'.msgs = xs.msgs ]_vars
    /\ [][ (x11'.pc = "swallow" /\ x11.pc # "swallow") =>
             /\ x11.pc = "change_property"
             /\ xs.up /\ xs.portal
             /\ xs'.prop = XProperty(ATOM_STRING, 8, x11.form)
             /\ xs'.events = Append(xs.events,
                                    PropertyNotify(portal_id, property_id,
                                                   "client"))
             /\ xs'.msgs = xs.msgs ]_vars
    /\ [](x11.pc \in {"change_property", "swallow", "send_event"}
             => x11.sends = 0)

\* the client message of a synchronous request has been sent and the
\* property still holds the request's form
C25_Witness ==
    /\ x11.pc = "wait" /\ x11.sends = 1
    /\ x11.form = <<2>>
    /\ xs.prop = XProperty(ATOM_STRING, 8, <<2>>)
    /\ xs.msgs = <<client_message(FALSE)>>

\* C26: a fire-and-forget request on the property transport, once its
\* client message is sent, flushes and returns Success(empty) (or the
\* flush's error): it takes no event off the queue after the message, never
\* waits for a reply and never reads the communication property.
C26_FireAndForget ==
    /\ [](fac.inner = "X11" /\ x11.is_async =>
            /\ x11.pc \notin {"wait", "read"}
            /\ x11.reads = 0
            /\ x11.seen = NoProperty
            /\ x11.sends = 1 => x11.pc \in {"flush", "idle"}
            /\ (x11_Finished /\ x11.sends = 1) =>
                  \/ x11.ret = Ok_Ok(<<>>)
                  \/ x11.ret = Err_Io /\ x11.err = "flush"
            /\ (x11_Finished /\ x11.ret.tag \in {"Success", "Failure"}) =>
                  x11.ret = Ok_Ok(<<>>) /\ x11.sends = 1)
    /\ [][ (x11.pc = "flush" /\ x11' # x11) =>
             /\ x11.is_async
             /\ xs' = xs
             /\ x11'.pc = "idle" ]_vars

\* a send has returned Success(empty) while its client message is still
\* waiting for the server
C26_Witness ==
    /\ fac.inner = "X11"
    /\ x11_Finished /\ x11.is_async
    /\ x11.ret = Ok_Ok(<<>>)
    /\ xs.msgs = <<client_message(TRUE)>>
    /\ xs.prop = XProperty(ATOM_STRING, 8, x11.form)

\* what a whole response frame decodes to
FrameResult(frame) ==
    IF frame[9] = 1 THEN Ok_Ok(SubSeq(frame, 10, Len(frame)))
    ELSE Ok_Err(SubSeq(frame, 10, Len(frame)))

\* C27: however the bytes of the response frame are split over the reads of
\* the stream, a synchronous eval of either socket client returns what the
\* whole frame decodes to, and it returns only when it has read the whole
\* frame: while bytes are missing it is still reading.
C27_PartialReads ==
    \A v \in Variants :
       LET c == cli[v]
       IN  (c # IdleClient /\ plan.set) =>
              /\ c.pc \in {"idle", "read_len", "read_state", "read_data"}
              /\ c.pc # "idle" =>
                    /\ c.ret = NoRet
                    /\ Len(c.got) < Len(plan.resp)
                    /\ c.got = SubSeq(plan.resp, 1, Len(c.got))
              /\ c.pc = "idle" =>
                    /\ c.ret = FrameResult(plan.resp)
                    /\ c.got = plan.resp
                    /\ Len(log) \in (IF Len(plan.resp) = 9 THEN 2 ELSE 3)
                                    ..Len(plan.resp)
                    /\ sock[v].rx = <<>>

\* the async client has read a frame of 11 bytes one byte at a time and
\* returned its payload as a failure
C27_Witness ==
    /\ cli["AsyncClient"].pc = "idle"
    /\ cli["AsyncClient"].ret = Ok_Err(<<2, 1>>)
    /\ Len(plan.resp) = 11
    /\ Len(log) = 11

\* the kind a request has on the wire: whether its receiver is asked to reply
SocketAsksReply(frame) == frame[1] = 0
MessageAsksReply(m) == m[4] = 1

\* C28: the client message sent to the request window is (1, portal window,
\* communication atom, flag, 0) with flag 1 for Client::eval and 0 for
\* Client::send, while the socket frame's first byte is 0 for Client::eval
\* and 1 for Client::send: on both transports the call asks for a reply
\* exactly when it is Client::eval.
C28_MessageAndKind ==
    /\ [][ Len(xs'.msgs) > Len(xs.msgs) =>
             LET m == xs'.msgs[Len(xs'.msgs)]
             IN  /\ xs'.msgs = Append(xs.msgs, m)
                 /\ Len(m) = 5
                 /\ m[1] = 1 /\ m[2] = portal_id /\ m[3] = property_id
                 /\ m[4] = (IF x11.is_async THEN 0 ELSE 1)
                 /\ m[5] = 0
                 /\ MessageAsksReply(m) <=> ~x11.is_async ]_vars
    /\ [](fac.inner = "Unix" /\ cli["Client"].sent # <<>> =>
            /\ cli["Client"].sent[1]
                  = (IF cli["Client"].is_async THEN 1 ELSE 0)
            /\ SocketAsksReply(cli["Client"].sent) <=> ~cli["Client"].is_async)
    /\ [][ (Client_at_rest /\ ~Client_at_rest') =>
             \/ fac'.pc # "opened"
             \/ fac.inner = "Unix" /\ cli'["Client"].pc = "send_buf"
             \/ fac.inner = "X11" /\ x11'.pc = "change_property" ]_vars

\* Client::eval on the property transport has sent its message, flag 1
C28_Witness ==
    /\ fac.inner = "X11"
    /\ ~x11.is_async /\ x11.sends = 1
    /\ xs.msgs = << <<1, portal_id, property_id, 1, 0>> >>

\* ------------------------------------------ read_response's read window
\* Sizes of up to 2^47, as hi * 2^16 + lo: a u32 is a size with hi < 2^16.
Half == 256 * 256
Wide(hi, lo) == [hi |-> hi, lo |-> lo]
W_norm(hi, lo) == Wide(hi + (lo \div Half), lo % Half)
W_of(n) == W_norm(0, n)
W_add(a, b) == W_norm(a.hi + b.hi, a.lo + b.lo)
W_lt(a, b) == a.hi < b.hi \/ (a.hi = b.hi /\ a.lo < b.lo)
W_sub(a, b) ==
    IF a.lo >= b.lo THEN Wide(a.hi - b.hi, a.lo - b.lo)
    ELSE Wide(a.hi - b.hi - 1, a.lo + Half - b.lo)
W_div4(a) == Wide(a.hi \div 4, ((a.hi % 4) * Half + a.lo) \div 4)
W_mul4(a) == W_norm(4 * a.hi, 4 * a.lo)

u32_MAX == Wide(Half - 1, Half - 1)
fits_u32(a) == a.hi < Half
u32_wrapping(a) == Wide(a.hi % Half, a.lo)

\* a property by the size of its value in bytes
WideProperty(t, f, len) == [type |-> t, format |-> f, len |-> len]

\* the X server's reply to GetProperty{type, long_offset: 0, long_length},
\* by sizes: len is the size of the value returned
GetPropertyWide(prop, type, long_length) ==
    IF prop.type = ATOM_NONE
    THEN [type |-> ATOM_NONE, format |-> 0, bytes_after |-> W_of(0),
          len |-> W_of(0)]
    ELSE IF prop.type # type
    THEN [type |-> prop.type, format |-> prop.format,
          bytes_after |-> prop.len, len |-> W_of(0)]
    ELSE LET window == W_mul4(long_length)
             t == IF W_lt(window, prop.len) THEN window ELSE prop.len
         IN  [type |-> prop.type, format |-> prop.format,
              bytes_after |-> W_sub(prop.len, t), len |-> t]

\* the window grows by the words that are whole in what is left
read_response_long_length_rounds_down(long_length, bytes_after) ==
    W_add(long_length, W_div4(bytes_after))

\* read_response: long_length += (bytes_after / 4) + 1, before it is cut to
\* 32 bits
read_response_long_length(long_length, bytes_after) ==
    W_add(long_length, W_add(W_div4(bytes_after), W_of(1)))

\* how many times the property is replaced during one read_response, and
\* how many GetProperty requests one read_response is followed through
MaxModify == 3
MaxReads == 5

\* the sizes of the reply: around the first window of 64 bytes, and up to
\* the largest the first reply's bytes_after can tell of
ReplySizes ==
    {W_of(n) : n \in {0, 1, 2, 63, 64, 65, 67, 68, 69, 72, 65535, 65536}}
    \cup {Wide(32768, 0), u32_MAX, W_add(u32_MAX, W_of(1)),
          W_add(u32_MAX, W_of(60)), W_add(u32_MAX, W_of(64))}

WideReplies ==
    {WideProperty(ATOM_STRING, 8, len) : len \in ReplySizes}
    \cup {WideProperty(ATOM_NONE, 0, W_of(0)),
          WideProperty(ATOM_CARDINAL, Window_FORMAT, W_of(4)),
          WideProperty(ATOM_STRING, Window_FORMAT, W_of(4))}

\* the largest property whose bytes_after the reply can still tell
LargestFor(long_length) ==
    WideProperty(ATOM_STRING, 8, W_add(W_mul4(long_length), u32_MAX))

\* read_response entered after the reply's PropertyNotify
InitWindow ==
    /\ endian = "little" /\ usize_bits = 64
    /\ xcb = TRUE
    /\ InitSockets
    /\ fac = [NoFacade EXCEPT !.pc = "opened", !.inner = "X11"]
    /\ log = <<>>
    /\ \E reply \in WideReplies :
          xs = [XConnected EXCEPT !.portal = TRUE, !.prop = reply]
    /\ x11 = [NoX11Client EXCEPT !.pc = "read",
                                 !.long_length = W_of(InitialLongLength)]

\* read_response: one GetProperty round trip, by sizes. A sum that does not
\* fit 32 bits panics (overflow checks on) or is cut to 32 bits.
WindowRead ==
    /\ x11.pc = "read" /\ x11.reads < MaxReads
    /\ LET reply == GetPropertyWide(xs.prop, ATOM_STRING, x11.long_length)
           c == [x11 EXCEPT !.seen = xs.prop, !.reads = @ + 1]
           sum == read_response_long_length(x11.long_length,
                                            reply.bytes_after)
       IN  IF reply.type # ATOM_STRING \/ reply.format # 8
           THEN x11' = x11_Return(c, Err_BadResponse(portal_id, property_id,
                                                      reply.type, reply.format))
           ELSE IF reply.bytes_after = W_of(0)
           THEN x11' = x11_Return(c, IF reply.len = W_of(0) THEN Err_NoResponse
                                     ELSE [tag |-> "Response",
                                           data |-> reply.len])
           ELSE IF fits_u32(sum)
           THEN x11' = [c EXCEPT !.long_length = sum]
           ELSE \/ x11' = [c EXCEPT !.pc = "panic", !.err = "overflow"]
                \/ x11' = [c EXCEPT !.long_length = u32_wrapping(sum),
                                    !.err = "overflow"]
    /\ UNCHANGED <<BuildVars, SocketVars, FacadeVars, xs>>

\* the property is replaced between two reads
WindowModify ==
    /\ x11.pc = "read" /\ x11.reads >= 1
    /\ Len(log) < MaxModify
    /\ \E reply \in WideReplies \cup {LargestFor(x11.long_length)} :
          /\ reply # xs.prop
          /\ xs' = [xs EXCEPT !.prop = reply]
    /\ log' = Append(log, "modify")
    /\ UNCHANGED <<BuildVars, SocketVars, fac, x11>>

\* the caller takes the result and the next reply is read
WindowResult ==
    /\ x11.pc = "idle"
    /\ x11' = [NoX11Client EXCEPT !.pc = "read",
                                  !.long_length = W_of(InitialLongLength)]
    /\ log' = <<>>
    /\ \E reply \in WideReplies : xs' = [xs EXCEPT !.prop = reply]
    /\ UNCHANGED <<BuildVars, SocketVars, fac>>

NextWindow ==
    \/ WindowRead
    \/ WindowModify
    \/ WindowResult

SpecWindow == InitWindow /\ [][NextWindow]_vars

\* the window of long_length words covers a value of len bytes
Covers(long_length, len) == ~W_lt(W_mul4(long_length), len)

\* C29: when the reply property is not replaced between the reads,
\* read_response ends with its second GetProperty at the latest, because
\* the window after the first read, 16 + bytes_after/4 + 1 words, covers the
\* whole value; the window only grows from one read to the next and stays
\* within 32 bits in that case.
C29_WindowCovers ==
    /\ [](log = <<>> =>
            /\ x11.reads <= 2
            /\ x11.pc \notin {"panic"} /\ x11.err # "overflow"
            /\ fits_u32(x11.long_length)
            /\ (x11.pc = "read" /\ x11.reads = 1) =>
                  /\ Covers(x11.long_length, xs.prop.len)
                  /\ x11.long_length
                       = W_add(W_of(17),
                               W_div4(W_sub(xs.prop.len, W_of(64)))))
    /\ [][ (x11.pc = "read" /\ x11.reads >= 1 /\ xs.prop = x11.seen
                /\ x11.err # "overflow" /\ x11' # x11) =>
              x11'.pc = "idle" /\ x11'.reads = x11.reads + 1 ]_vars
    /\ [][ (x11.pc = "read" /\ x11'.pc = "read" /\ x11'.reads = x11.reads + 1
                /\ x11'.err # "overflow") =>
              W_lt(x11.long_length, x11'.long_length) ]_vars

\* a reply of the largest size the first read can tell of has been read
\* entire by the second GetProperty
C29_Witness ==
    /\ log = <<>>
    /\ x11.pc = "idle" /\ x11.reads = 2
    /\ x11.ret = [tag |-> "Response", data |-> W_add(u32_MAX, W_of(64))]
    /\ x11.long_length = Wide(16384, 16)

\* ------------------------------------------------ wait_for_property_notify
\* how many events reach the client during one wait
MaxEvents == 3

\* the events a wait may meet: the one it waits for, caused by the client
\* or by the server, and events of another type, atom or window
WaitEvents ==
    OtherEvents
    \cup {PropertyNotify(req_win_id, property_id, "x"),
          PropertyNotify(req_win_id, other_atom_id, "x"),
          PropertyNotify(portal_id, property_id, "client"),
          PropertyNotify(portal_id, property_id, "server")}

\* a call is at one of its two waits; log lists the events as they arrive
InitWait ==
    /\ endian = "little" /\ usize_bits = 64
    /\ xcb = TRUE
    /\ InitSockets
    /\ fac = [NoFacade EXCEPT !.pc = "opened", !.inner = "X11"]
    /\ log = <<>>
    /\ xs = [XConnected EXCEPT !.portal = TRUE]
    /\ \E pc \in {"swallow", "wait"} :
          x11 = [NoX11Client EXCEPT !.pc = pc,
                                    !.sends = IF pc = "wait" THEN 1 ELSE 0]

\* the X server queues an event for the client
WaitArrive ==
    /\ xs.up /\ Len(log) < MaxEvents
    /\ \E ev \in WaitEvents :
          /\ xs' = [xs EXCEPT !.events = Append(@, ev)]
          /\ log' = Append(log, ev)
    /\ UNCHANGED <<BuildVars, SocketVars, fac, x11>>

\* wait_for_property_notify takes one event, or fails on a broken connection
WaitStep == x11_wait_for_property_notify

WaitDisconnect == XServer_disconnect

NextWait ==
    \/ WaitArrive
    \/ WaitStep
    \/ WaitDisconnect

SpecWait == InitWait /\ [][NextWait]_vars

\* the event is a PropertyNotify for the portal and the communication atom
ForPortalProperty(ev) ==
    /\ ev.type = "PropertyNotify"
    /\ ev.window = portal_id
    /\ ev.atom = property_id

\* the events the wait has taken off the queue so far
Taken == SubSeq(log, 1, Len(log) - Len(xs.events))

\* C30: wait_for_property_notify returns success exactly when it takes a
\* PropertyNotify whose window is the portal and whose atom is the
\* communication atom; every other event (another type, another window,
\* another atom) is taken off the queue and dropped, the wait going on
\* unchanged and no error being produced; it fails only when the connection
\* is broken and no event is left.
C30_WaitReturns ==
    /\ [](x11.pc \in {"swallow", "wait"} =>
            \A i \in 1..Len(Taken) : ~ForPortalProperty(Taken[i]))
    /\ [](x11.pc \in {"send_event", "read"} =>
            /\ Taken # <<>>
            /\ ForPortalProperty(Taken[Len(Taken)])
            /\ \A i \in 1..(Len(Taken) - 1) : ~ForPortalProperty(Taken[i])
            /\ x11.ret = NoRet /\ x11.err = "none")
    /\ [](x11.pc = "idle" =>
            /\ x11.ret = Err_Io /\ x11.err = "wait_for_event"
            /\ ~xs.up /\ xs.events = <<>>
            /\ \A i \in 1..Len(Taken) : ~ForPortalProperty(Taken[i]))
    /\ [][ (x11.pc \in {"swallow", "wait"} /\ xs.events # <<>>
              /\ xs'.events = Tail(xs.events)) =>
             IF ForPortalProperty(Head(xs.events))
             THEN x11'.pc = (IF x11.pc = "swallow" THEN "send_event" ELSE "read")
             ELSE x11' = x11 ]_vars

\* the wait for the reply has dropped an Expose event and a PropertyNotify
\* for another window and has returned on the server's PropertyNotify
C30_Witness ==
    /\ x11.pc = "read"
    /\ xs.events = <<>>
    /\ log = <<[type |-> "Expose", window |-> portal_id, atom |-> ATOM_NONE,
                by |-> "x"],
               PropertyNotify(req_win_id, property_id, "x"),
               PropertyNotify(portal_id, property_id, "server")>>

\* ------------------------------------------- calls on the property transport
\* x11::Client::open has returned Ok
InitLive ==
    /\ InitBuild
    /\ xcb = TRUE
    /\ InitSockets
    /\ fac = [NoFacade EXCEPT !.pc = "opened", !.inner = "X11"]
    /\ log = <<>>
    /\ x11 = [NoX11Client EXCEPT !.pc = "idle"]
    /\ xs = [XConnected EXCEPT !.portal = TRUE]

NextLive ==
    \/ Client_eval_call
    \/ Client_send_call
    \/ Client_result
    \/ X11Client
    \/ XServer_disconnect
    \/ XServer_other_event
    \/ Sawfish_handle

\* the calling thread runs whenever its blocking call can go on, and the
\* Sawfish server handles every client message it has received
SpecLive ==
    /\ InitLive
    /\ [][NextLive]_vars
    /\ WF_vars(X11Client)
    /\ WF_vars(Sawfish_handle)

\* a synchronous eval is under way on the property transport
x11_EvalUnderWay == x11.pc \notin {"none", "idle"} /\ ~x11.is_async

\* C31: with the calling thread running and the server answering every
\* request it receives, a synchronous eval on the property transport
\* eventually returns, however many unrelated events come first; and it has
\* no timeout: the wait for the reply ends only by taking a PropertyNotify
\* for the portal and the communication atom off the queue or by the
\* connection's failure, and with the connection up and no event queued the
\* call cannot take a step.
C31_EvalReturns ==
    /\ x11_EvalUnderWay ~> x11_Finished
    /\ [][ (x11.pc = "wait" /\ x11'.pc # "wait") =>
             \/ /\ xs.events # <<>>
                /\ ForPortalProperty(Head(xs.events))
                /\ xs'.events = Tail(xs.events)
                /\ x11'.pc = "read"
             \/ /\ ~xs.up /\ xs.events = <<>>
                /\ x11'.ret = Err_Io /\ x11'.err = "wait_for_event" ]_vars
    /\ [](x11.pc = "wait" /\ xs.up /\ xs.events = <<>> => ~ENABLED X11Client)

\* a synchronous eval has returned the server's reply after one read
C31_Witness ==
    /\ x11_Finished /\ ~x11.is_async
    /\ xs.up /\ xs.msgs = <<>>
    /\ x11.sends = 1 /\ x11.reads = 1
    /\ x11.ret = Ok_Ok(<<2, 0>>)
    /\ x11.seen = XProperty(ATOM_STRING, 8, <<1, 2, 0>>)

\* the errors x11::Client::open returns
FallbackErrors == {ConnError(t) : t \in {"ServerNotFound", "BadScreen", "X11"}}

\* C32: when the socket open has failed and the property transport's open,
\* built in and tried as the fallback, fails as well, open returns the
\* fallback's error - ServerNotFound, BadScreen or X11 - and the socket
\* transport's error (NoLogname or the connect's Io error) is not what the
\* caller gets.
C32_FallbackError ==
    /\ [](xcb /\ fac.pc = "failed" /\ fac.err # NoConnError =>
            /\ fac.err.tag \in {"NoLogname", "Io"}
            /\ fac.ret \in FallbackErrors
            /\ fac.ret # fac.err
            /\ log # <<>> /\ log[Len(log)] = "x11_connect")
    /\ [][ (fac.pc = "x11" /\ fac'.pc = "failed") =>
             /\ xcb
             /\ fac'.err = fac.err /\ fac.err # NoConnError
             /\ fac'.ret \in FallbackErrors ]_vars
    /\ [](xcb /\ fac.ret.tag \in {"NoLogname", "Io"} => fac.pc # "failed")

\* the socket was not there (Io, NotFound) and neither was the server's
\* request window: open has returned ServerNotFound
C32_Witness ==
    /\ xcb /\ fac.pc = "failed"
    /\ fac.err.tag = "Io" /\ fac.err.io = "NotFound"
    /\ fac.ret = ConnError("ServerNotFound")
    /\ x11.req_win_atom = "none"

\* the bytes a call has read stop short of the response frame their header
\* announces (a header of zero or one too large for usize announces none)
Incomplete(got) ==
    \/ Len(got) < 8
    \/ LET d == from_ne_bytes(SubSeq(got, 1, 8))
       IN  /\ d # U64Zero
           /\ usize_try_from_ok(u64_sub_one(d))
           /\ ~u64_is_small(d) \/ Len(got) < 8 + u64_small_value(d)

\* C33: a synchronous eval of either socket client that meets the end of
\* the stream or a failing read before it has the whole response frame -
\* inside the length header, before the status byte or inside the payload -
\* returns Io; Success and Failure are returned only with the whole payload
\* the header announces.
C33_TruncatedIsIo ==
    /\ [](\A v \in Variants :
            LET c == cli[v]
            IN  (Finished(c) /\ ~c.is_async) =>
                  /\ Incomplete(c.got) => c.ret = Err_Io
                  /\ c.ret.tag \in {"Success", "Failure"} =>
                        /\ ~Incomplete(c.got)
                        /\ Len(c.got) >= 9
                        /\ LenBytes(Len(c.got) - 8) = SubSeq(c.got, 1, 8)
                        /\ c.ret.data = SubSeq(c.got, 10, Len(c.got)))
    /\ [][ \A v \in Variants :
             (cli[v].pc \in ReadStates /\ cli'[v] # cli[v]
                /\ sock[v].rx = <<>> /\ sock[v].eof) =>
                /\ Finished(cli'[v]) /\ cli'[v].ret = Err_Io
                /\ cli'[v].got = cli[v].got
                /\ Incomplete(cli[v].got) ]_vars

\* the stream ended inside the payload: the header announced a frame of
\* three bytes, two came, and the call returned Io
C33_Witness ==
    /\ Finished(cli["Client"]) /\ ~cli["Client"].is_async
    /\ cli["Client"].got = LenBytes(3) \o <<1, 2>>
    /\ cli["Client"].ret = Err_Io
    /\ sock["Client"].eof /\ sock["Client"].rx = <<>>

\* the requests and waits of x11::Client::eval that can fail
X11Requests ==
    {"ChangeProperty", "wait_for_event", "SendEvent", "flush", "GetProperty"}

DisplayChosen == fac.pc \in {"unix", "fallback", "x11", "failed"}

====
